---- MODULE Spec2Model ----
(***************************************************************************)
(* Verification model of src/src/ARScene.tsx: the RREF step recorder       *)
(* (calculateRrefSteps), the solution analyzer (analyzeRref) and the       *)
(* helpers they rest on.                                                   *)
(*                                                                         *)
(* Numbers.  A JavaScript number is modelled as an exact rational <<n, d>> *)
(* in lowest terms with d > 0.  The matrices the editor can produce have   *)
(* entries that are multiples of 0.5 in [-10, 10] (ValueAdjuster), for     *)
(* which every intermediate value of the elimination is a ratio of small   *)
(* minors: the model follows the arithmetic exactly and keeps every        *)
(* comparison against EPSILON as the code writes it.  The store accepts    *)
(* any number in a cell (updateInitialRrefCell), so the inputs also hold   *)
(* matrices with entries at the scale of EPSILON (ToleranceInputs); on     *)
(* those the runs of the model were replayed in IEEE doubles.              *)
(*                                                                         *)
(* Arrays.  A JavaScript array is an object with identity.  The heap is a  *)
(* sequence of arrays, an address is an index into it, a matrix is an      *)
(* array of row addresses and a row is an array of numbers.  Indices of    *)
(* the source are 0-based and are kept 0-based; At translates.              *)
(***************************************************************************)
EXTENDS Integers, Sequences, FiniteSets, TLC

(***************************************************************************)
(* Rational arithmetic                                                     *)
(***************************************************************************)
IAbs(n) == IF n < 0 THEN -n ELSE n

RECURSIVE GCD(_, _)
GCD(a, b) == IF b = 0 THEN a ELSE GCD(b, a % b)

Norm(n, d) ==
  LET s == IF d < 0 THEN -1 ELSE 1
      g == GCD(IAbs(n), IAbs(d))
  IN <<(s * n) \div g, (s * d) \div g>>

R(n) == <<n, 1>>
Half(n) == Norm(n, 2)
\* Sum and difference over the least common denominator.
RSub(a, b) ==
  LET g == GCD(a[2], b[2])
  IN Norm(a[1] * (b[2] \div g) - b[1] * (a[2] \div g), (a[2] \div g) * b[2])
RAdd(a, b) ==
  LET g == GCD(a[2], b[2])
  IN Norm(a[1] * (b[2] \div g) + b[1] * (a[2] \div g), (a[2] \div g) * b[2])
RMul(a, b) == Norm(a[1] * b[1], a[2] * b[2])
RDiv(a, b) == Norm(a[1] * b[2], a[2] * b[1])
RAbs(a) == <<IAbs(a[1]), a[2]>>

\* n1/d1 < n2/d2 by integer parts, then by the reciprocals of the fractional
\* parts: no product is taken.
RECURSIVE LessByParts(_, _, _, _)
LessByParts(n1, d1, n2, d2) ==
  IF n1 \div d1 # n2 \div d2 THEN n1 \div d1 < n2 \div d2
  ELSE IF n1 % d1 = 0 THEN n2 % d2 > 0
  ELSE IF n2 % d2 = 0 THEN FALSE
  ELSE LessByParts(d2, n2 % d2, d1, n1 % d1)

\* The largest magnitude whose products stay within the integers of the
\* checker.
SmallTerm == 32768
RLess(a, b) ==
  IF IAbs(a[1]) < SmallTerm /\ IAbs(b[1]) < SmallTerm
       /\ a[2] < SmallTerm /\ b[2] < SmallTerm
    THEN a[1] * b[2] < b[1] * a[2]
    ELSE LessByParts(a[1], a[2], b[1], b[2])
RGreater(a, b) == RLess(b, a)
Zero == R(0)
One == R(1)

\* const EPSILON = 1e-6
EPSILON == <<1, 1000000>>

(***************************************************************************)
(* Heap of arrays                                                          *)
(***************************************************************************)
\* element j (0-based) of an array value
At(arr, j) == arr[j + 1]

\* the matrix value held at address a: the rows its row addresses point to
Deref(heap, a) == [i \in 1..Len(heap[a]) |-> heap[heap[a][i]]]

\* A mutant of deepCopyMatrix: the copy is the argument itself.
deepCopyMatrixAlias(heap, a) == [heap |-> heap, ref |-> a]

\* deepCopyMatrix: matrix.map((row) => [...row]): a fresh outer array of
\* fresh row arrays.
deepCopyMatrix(heap, a) ==
  LET rows == heap[a]
      n == Len(rows)
      base == Len(heap)
      withRows == heap \o [i \in 1..n |-> heap[rows[i]]]
      outer == [i \in 1..n |-> base + i]
  IN [heap |-> Append(withRows, outer), ref |-> base + n + 1]

\* matrix[i] = newRow: a fresh row array, stored into slot i of the outer
\* array at address a (the outer array is changed in place).
StoreRow(heap, a, i, newRow) ==
  LET h1 == Append(heap, newRow)
  IN [h1 EXCEPT ![a] = [heap[a] EXCEPT ![i + 1] = Len(h1)]]

\* A mutant of PushSnapshot: the copy is pushed twice.
PushSnapshotTwice(es) ==
  LET c == deepCopyMatrix(es.heap, es.matrix)
  IN [es EXCEPT !.heap = c.heap,
                !.history = Append(Append(es.history, c.ref), c.ref)]

\* history.push(deepCopyMatrix(matrix))
PushSnapshot(es) ==
  LET c == deepCopyMatrix(es.heap, es.matrix)
  IN [es EXCEPT !.heap = c.heap, !.history = Append(es.history, c.ref)]

\* .map((val) => Math.abs(val) < EPSILON ? 0 : val)
SnapRow(row) ==
  [j \in 1..Len(row) |-> IF RLess(RAbs(row[j]), EPSILON) THEN Zero ELSE row[j]]

\* A mutant of ScaleRow: the row is divided by the square of the pivot value.
ScaleRowBySquare(row, pivotValue) ==
  [j \in 1..Len(row) |-> RDiv(row[j], RMul(pivotValue, pivotValue))]

\* A mutant of ScaleRow: the row is divided by the opposite of the pivot value.
ScaleRowByOpposite(row, pivotValue) ==
  [j \in 1..Len(row) |-> RDiv(row[j], RSub(Zero, pivotValue))]

\* .map((el) => el / pivotValue)
ScaleRow(row, pivotValue) ==
  [j \in 1..Len(row) |-> RDiv(row[j], pivotValue)]

\* A mutant of EliminateRow: the multiple of the pivot row is added.
EliminateRowAdd(row, factor, pivot) ==
  [j \in 1..Len(row) |-> RAdd(row[j], RMul(factor, pivot[j]))]

\* .map((el, j) => el - factor * matrix[pivotRow][j])
EliminateRow(row, factor, pivot) ==
  [j \in 1..Len(row) |-> RSub(row[j], RMul(factor, pivot[j]))]

(***************************************************************************)
(* calculateRrefSteps as a step machine.  An engine state es holds the     *)
(* heap, the local variables of the function and a position pc; one step   *)
(* is one pass through a stretch of the loop body.                         *)
(***************************************************************************)
numRowsOf(es) == Len(es.heap[es.matrix])

\* matrix[0]?.length || 0
numColsOf(es) ==
  IF numRowsOf(es) = 0 THEN 0 ELSE Len(es.heap[At(es.heap[es.matrix], 0)])

\* the row array value matrix[i]
RowOf(es, i) == es.heap[At(es.heap[es.matrix], i)]

\* A mutant of StartStep: the loops are entered whatever the shape.
StartStepNoShapeTest(heap, initialMatrix) ==
  LET c1 == deepCopyMatrix(heap, initialMatrix)
      c2 == deepCopyMatrix(c1.heap, initialMatrix)
  IN [heap |-> c2.heap, history |-> <<c1.ref>>, matrix |-> c2.ref,
      initial |-> initialMatrix, pivotRow |-> 0, pivotCol |-> 0,
      i |-> 0, k |-> 0, backCol |-> -1, pc |-> "pivot"]

\* const history = [deepCopyMatrix(initialMatrix)];
\* let matrix = deepCopyMatrix(initialMatrix);
\* if (numRows === 0) return history; if (numCols === 0) return history;
StartStep(heap, initialMatrix) ==
  LET c1 == deepCopyMatrix(heap, initialMatrix)
      c2 == deepCopyMatrix(c1.heap, initialMatrix)
      es == [heap |-> c2.heap, history |-> <<c1.ref>>, matrix |-> c2.ref,
             initial |-> initialMatrix, pivotRow |-> 0, pivotCol |-> 0,
             i |-> 0, k |-> 0, backCol |-> -1, pc |-> "pivot"]
  IN IF numRowsOf(es) = 0 \/ numColsOf(es) = 0
       THEN [es EXCEPT !.pc = "done"]
       ELSE es

\* A mutant of FindMaxRow: on a tie the later row wins (>= for >).
RECURSIVE FindMaxRowLast(_, _, _)
FindMaxRowLast(es, k, maxRow) ==
  IF k >= numRowsOf(es) THEN maxRow
  ELSE IF ~RLess(RAbs(At(RowOf(es, k), es.pivotCol)),
                 RAbs(At(RowOf(es, maxRow), es.pivotCol)))
         THEN FindMaxRowLast(es, k + 1, k)
         ELSE FindMaxRowLast(es, k + 1, maxRow)

\* for (let k = pivotRow + 1; k < numRows; k++)
\*   if (Math.abs(matrix[k][pivotCol]) > Math.abs(matrix[maxRow][pivotCol])) maxRow = k;
RECURSIVE FindMaxRow(_, _, _)
FindMaxRow(es, k, maxRow) ==
  IF k >= numRowsOf(es) THEN maxRow
  ELSE IF RGreater(RAbs(At(RowOf(es, k), es.pivotCol)),
                   RAbs(At(RowOf(es, maxRow), es.pivotCol)))
         THEN FindMaxRow(es, k + 1, k)
         ELSE FindMaxRow(es, k + 1, maxRow)

\* A mutant of SwapRows: the pivot slot takes the other row and the other
\* slot keeps it.
SwapRowsOverwrite(es, maxRow) ==
  LET outer == es.heap[es.matrix]
      swapped == [outer EXCEPT ![es.pivotRow + 1] = outer[maxRow + 1]]
  IN [es EXCEPT !.heap = [es.heap EXCEPT ![es.matrix] = swapped]]

\* [matrix[pivotRow], matrix[maxRow]] = [matrix[maxRow], matrix[pivotRow]]
SwapRows(es, maxRow) ==
  LET outer == es.heap[es.matrix]
      swapped == [outer EXCEPT ![es.pivotRow + 1] = outer[maxRow + 1],
                               ![maxRow + 1] = outer[es.pivotRow + 1]]
  IN [es EXCEPT !.heap = [es.heap EXCEPT ![es.matrix] = swapped]]

\* A mutant of PivotStep: a column without pivot uses up a pivot row.
PivotStepSkipAdvances(es) ==
  IF ~(es.pivotCol < numColsOf(es) - 1 /\ es.pivotRow < numRowsOf(es))
    THEN [es EXCEPT !.pc = "back", !.i = numRowsOf(es) - 1]
    ELSE LET maxRow == FindMaxRow(es, es.pivotRow + 1, es.pivotRow)
         IN IF RLess(RAbs(At(RowOf(es, maxRow), es.pivotCol)), EPSILON)
              THEN [es EXCEPT !.pivotCol = @ + 1, !.pivotRow = @ + 1]
              ELSE IF maxRow # es.pivotRow
                     THEN [PushSnapshot(SwapRows(es, maxRow)) EXCEPT !.pc = "scale"]
                     ELSE [es EXCEPT !.pc = "scale"]

\* The head of the forward loop: the loop test, the search for the largest
\* entry of the pivot column, the skip of a column without pivot, the swap.
PivotStep(es) ==
  IF ~(es.pivotCol < numColsOf(es) - 1 /\ es.pivotRow < numRowsOf(es))
    THEN [es EXCEPT !.pc = "back", !.i = numRowsOf(es) - 1]
    ELSE LET maxRow == FindMaxRow(es, es.pivotRow + 1, es.pivotRow)
         IN IF RLess(RAbs(At(RowOf(es, maxRow), es.pivotCol)), EPSILON)
              THEN [es EXCEPT !.pivotCol = @ + 1]
              ELSE IF maxRow # es.pivotRow
                     THEN [PushSnapshot(SwapRows(es, maxRow)) EXCEPT !.pc = "scale"]
                     ELSE [es EXCEPT !.pc = "scale"]

\* A mutant of ScaleStep: the pivot row is never scaled.
ScaleStepSkip(es) == [es EXCEPT !.pc = "elim", !.i = 0]

\* A mutant of ScaleStep: the scaled matrix is recorded even when the pivot
\* is already 1.
ScaleStepAlways(es) ==
  LET pivotValue == At(RowOf(es, es.pivotRow), es.pivotCol)
      scaled == ScaleRow(RowOf(es, es.pivotRow), pivotValue)
      h1 == StoreRow(es.heap, es.matrix, es.pivotRow, scaled)
      h2 == StoreRow(h1, es.matrix, es.pivotRow, SnapRow(scaled))
  IN [PushSnapshot([es EXCEPT !.heap = h2]) EXCEPT !.pc = "elim", !.i = 0]

\* const pivotValue = matrix[pivotRow][pivotCol];
\* if (Math.abs(pivotValue - 1.0) > EPSILON) { scale; snap; push }
ScaleStep(es) ==
  LET pivotValue == At(RowOf(es, es.pivotRow), es.pivotCol)
      scaled == ScaleRow(RowOf(es, es.pivotRow), pivotValue)
      h1 == StoreRow(es.heap, es.matrix, es.pivotRow, scaled)
      h2 == StoreRow(h1, es.matrix, es.pivotRow, SnapRow(scaled))
  IN IF RGreater(RAbs(RSub(pivotValue, One)), EPSILON)
       THEN [PushSnapshot([es EXCEPT !.heap = h2]) EXCEPT !.pc = "elim", !.i = 0]
       ELSE [es EXCEPT !.pc = "elim", !.i = 0]

\* A mutant of ReduceRow: the row is reduced and recorded whatever the factor.
ReduceRowAlways(es, target, source, col) ==
  LET factor == At(RowOf(es, target), col)
      reduced == EliminateRow(RowOf(es, target), factor, RowOf(es, source))
      h1 == StoreRow(es.heap, es.matrix, target, reduced)
      h2 == StoreRow(h1, es.matrix, target, SnapRow(reduced))
  IN PushSnapshot([es EXCEPT !.heap = h2])

\* matrix[target] = matrix[target] - factor * matrix[source], snapped, and a
\* snapshot pushed, when |factor| > EPSILON (factor = matrix[target][col]).
ReduceRow(es, target, source, col) ==
  LET factor == At(RowOf(es, target), col)
      reduced == EliminateRow(RowOf(es, target), factor, RowOf(es, source))
      h1 == StoreRow(es.heap, es.matrix, target, reduced)
      h2 == StoreRow(h1, es.matrix, target, SnapRow(reduced))
  IN IF RGreater(RAbs(factor), EPSILON)
       THEN PushSnapshot([es EXCEPT !.heap = h2])
       ELSE es

\* A mutant of ElimStep: only the rows below the pivot row are reduced.
ElimStepBelowOnly(es) ==
  LET after == IF es.i > es.pivotRow
                 THEN ReduceRow(es, es.i, es.pivotRow, es.pivotCol)
                 ELSE es
  IN IF es.i + 1 < numRowsOf(es)
       THEN [after EXCEPT !.i = es.i + 1]
       ELSE [after EXCEPT !.i = es.i + 1, !.pivotRow = @ + 1,
                          !.pivotCol = @ + 1, !.pc = "pivot"]

\* One pass of for (let i = 0; i < numRows; i++) of the forward phase, and
\* pivotRow++ / pivotCol++ after the last.
ElimStep(es) ==
  LET after == IF es.i # es.pivotRow
                 THEN ReduceRow(es, es.i, es.pivotRow, es.pivotCol)
                 ELSE es
  IN IF es.i + 1 < numRowsOf(es)
       THEN [after EXCEPT !.i = es.i + 1]
       ELSE [after EXCEPT !.i = es.i + 1, !.pivotRow = @ + 1,
                          !.pivotCol = @ + 1, !.pc = "pivot"]

\* The leading pivot column of a row among columns 0..n-1: the first column
\* within EPSILON of 1 with only entries within EPSILON of 0 before it; -1
\* when an entry that is neither comes first.
RECURSIVE LeadingPivotCol(_, _, _)
LeadingPivotCol(row, j, n) ==
  IF j >= n THEN -1
  ELSE IF RLess(RAbs(RSub(At(row, j), One)), EPSILON)
         THEN IF \A k \in 0..(j - 1) : ~RGreater(RAbs(At(row, k)), EPSILON)
                THEN j
                ELSE LeadingPivotCol(row, j + 1, n)
         ELSE IF RGreater(RAbs(At(row, j)), EPSILON)
                THEN -1
                ELSE LeadingPivotCol(row, j + 1, n)

\* The head of for (let i = numRows - 1; i >= 0; i--): the pivot column of
\* row i.
BackStep(es) ==
  IF es.i < 0 THEN [es EXCEPT !.pc = "done"]
  ELSE LET pivotCol == LeadingPivotCol(RowOf(es, es.i), 0, numColsOf(es) - 1)
       IN IF pivotCol # -1 /\ es.i - 1 >= 0
            THEN [es EXCEPT !.pc = "backelim", !.k = es.i - 1, !.backCol = pivotCol]
            ELSE [es EXCEPT !.i = es.i - 1, !.backCol = pivotCol]

\* One pass of for (let k = i - 1; k >= 0; k--).
BackElimStep(es) ==
  LET after == ReduceRow(es, es.k, es.i, es.backCol)
  IN IF es.k - 1 >= 0
       THEN [after EXCEPT !.k = es.k - 1]
       ELSE [after EXCEPT !.k = es.k - 1, !.i = es.i - 1, !.pc = "back"]

EngineStep(es) ==
  CASE es.pc = "pivot" -> PivotStep(es)
    [] es.pc = "scale" -> ScaleStep(es)
    [] es.pc = "elim" -> ElimStep(es)
    [] es.pc = "back" -> BackStep(es)
    [] es.pc = "backelim" -> BackElimStep(es)
    [] OTHER -> es

RECURSIVE RunEngine(_)
RunEngine(es) == IF es.pc = "done" THEN es ELSE RunEngine(EngineStep(es))

\* The matrices of the history, in order.
HistoryOf(es) == [n \in 1..Len(es.history) |-> Deref(es.heap, es.history[n])]

\* calculateRrefSteps on a matrix value: the matrix is laid out in a fresh
\* heap, the engine is run to its end and the history is read back.
HeapOf(M) == Append([i \in 1..Len(M) |-> M[i]], [i \in 1..Len(M) |-> i])
calculateRrefSteps(M) == HistoryOf(RunEngine(StartStep(HeapOf(M), Len(M) + 1)))

(***************************************************************************)
(* analyzeRref                                                             *)
(***************************************************************************)
\* null (no Vector3, no analysis)
Null == <<>>

\* The first column c of 0..numCols-1 with |row[c]| > EPSILON, or -1.
RECURSIVE FirstNonzeroCol(_, _, _)
FirstNonzeroCol(row, c, numCols) ==
  IF c >= numCols THEN -1
  ELSE IF RGreater(RAbs(At(row, c)), EPSILON) THEN c
  ELSE FirstNonzeroCol(row, c + 1, numCols)

\* A mutant of RankScan: a leading entry in the constant column counts as a
\* pivot (c < numCols for c < numVars).
RECURSIVE RankScanPivotInConstant(_, _, _, _)
RankScanPivotInConstant(rrefMatrix, r, numCols, rank) ==
  IF r >= Len(rrefMatrix) THEN [rank |-> rank, inconsistent |-> FALSE]
  ELSE LET c == FirstNonzeroCol(At(rrefMatrix, r), 0, numCols)
       IN RankScanPivotInConstant(rrefMatrix, r + 1, numCols,
                                  IF c # -1 THEN rank + 1 ELSE rank)

\* A mutant of RankScan: rows after an inconsistent row are still scanned and
\* the flag is set by the last row only.
RECURSIVE RankScanLastRow(_, _, _, _)
RankScanLastRow(rrefMatrix, r, numCols, rank) ==
  IF r >= Len(rrefMatrix) THEN [rank |-> rank, inconsistent |-> FALSE]
  ELSE LET c == FirstNonzeroCol(At(rrefMatrix, r), 0, numCols)
       IN IF c = numCols - 1 /\ r = Len(rrefMatrix) - 1
            THEN [rank |-> rank, inconsistent |-> TRUE]
            ELSE RankScanLastRow(rrefMatrix, r + 1, numCols,
                                 IF c # -1 /\ c < numCols - 1 THEN rank + 1 ELSE rank)

\* A mutant of RankScan: every row that is not impossible counts as a pivot
\* row, a row of zeros included.
RECURSIVE RankScanCountsZeroRows(_, _, _, _)
RankScanCountsZeroRows(rrefMatrix, r, numCols, rank) ==
  IF r >= Len(rrefMatrix) THEN [rank |-> rank, inconsistent |-> FALSE]
  ELSE LET c == FirstNonzeroCol(At(rrefMatrix, r), 0, numCols)
       IN IF c # -1 /\ ~(c < numCols - 1)
            THEN [rank |-> rank, inconsistent |-> TRUE]
            ELSE RankScanCountsZeroRows(rrefMatrix, r + 1, numCols, rank + 1)

\* for (let r = 0; r < numRows; r++): the rank counted and the inconsistent
\* flag; the scan stops at the first row 0 ... 0 | k.
RECURSIVE RankScan(_, _, _, _)
RankScan(rrefMatrix, r, numCols, rank) ==
  IF r >= Len(rrefMatrix) THEN [rank |-> rank, inconsistent |-> FALSE]
  ELSE LET c == FirstNonzeroCol(At(rrefMatrix, r), 0, numCols)
       IN IF c # -1 /\ ~(c < numCols - 1)
            THEN [rank |-> rank, inconsistent |-> TRUE]
            ELSE RankScan(rrefMatrix, r + 1, numCols,
                          IF c # -1 THEN rank + 1 ELSE rank)

\* let rank = 0; ... rank++: the rank the analyzer has counted when it
\* leaves the scan, -1 when it returns before the scan (no rows, fewer than
\* two columns).
rankOf(rrefMatrix) ==
  LET numRows == Len(rrefMatrix)
      numCols == IF numRows = 0 THEN 0 ELSE Len(At(rrefMatrix, 0))
  IN IF numRows = 0 \/ numCols < 2 THEN -1
     ELSE RankScan(rrefMatrix, 0, numCols, 0).rank

\* A mutant of PivotValueFor: the value is read one column before the
\* constant column.
RECURSIVE PivotValueForOffByOne(_, _, _, _, _)
PivotValueForOffByOne(rrefMatrix, col, r, rank, val) ==
  IF r >= rank THEN val
  ELSE LET numVars == Len(At(rrefMatrix, 0)) - 1
           pivotCol == LeadingPivotCol(At(rrefMatrix, r), 0, numVars)
       IN PivotValueForOffByOne(rrefMatrix, col, r + 1, rank,
            IF pivotCol = col THEN At(At(rrefMatrix, r), numVars - 1) ELSE val)

\* The value read for the variable of pivot column col: the constant of the
\* last of the first `rank` rows whose leading pivot column is col, else 0.
RECURSIVE PivotValueFor(_, _, _, _, _)
PivotValueFor(rrefMatrix, col, r, rank, val) ==
  IF r >= rank THEN val
  ELSE LET numVars == Len(At(rrefMatrix, 0)) - 1
           pivotCol == LeadingPivotCol(At(rrefMatrix, r), 0, numVars)
       IN PivotValueFor(rrefMatrix, col, r + 1, rank,
                        IF pivotCol = col THEN At(At(rrefMatrix, r), numVars) ELSE val)

\* Number.prototype.toFixed(2), as the number of hundredths nearest to x
\* (halves away from zero).
toFixed2(x) ==
  LET n == IAbs(x[1]) * 200 + x[2]
      q == n \div (2 * x[2])
  IN IF x[1] < 0 THEN -q ELSE q

\* A mutant of infiniteSolutionType: two free variables are reported as a line.
infiniteSolutionTypeLine(numVars, freeVars, rank) ==
  IF numVars = 3 /\ freeVars = 3 /\ rank = 0
    THEN [type |-> "infinite_plane", typeStr |-> <<"Infinite Solutions (All R3)">>]
  ELSE IF numVars = 3 /\ freeVars = 2
    THEN [type |-> "infinite_line", typeStr |-> <<"Infinite Solutions (Line)">>]
  ELSE IF numVars = 3 /\ freeVars = 1
    THEN [type |-> "infinite_line", typeStr |-> <<"Infinite Solutions (Line)">>]
  ELSE [type |-> "infinite_line",
        typeStr |-> <<"Infinite Solutions", freeVars, "free variable(s)">>]

\* let type = "infinite_line"; let typeStr = `Infinite Solutions (${freeVars}
\* free variable(s))`; if (numVars === 3) { ... }: the later assignment wins.
infiniteSolutionType(numVars, freeVars, rank) ==
  IF numVars = 3 /\ freeVars = 3 /\ rank = 0
    THEN [type |-> "infinite_plane", typeStr |-> <<"Infinite Solutions (All R3)">>]
  ELSE IF numVars = 3 /\ freeVars = 2
    THEN [type |-> "infinite_plane", typeStr |-> <<"Infinite Solutions (Plane)">>]
  ELSE IF numVars = 3 /\ freeVars = 1
    THEN [type |-> "infinite_line", typeStr |-> <<"Infinite Solutions (Line)">>]
  ELSE [type |-> "infinite_line",
        typeStr |-> <<"Infinite Solutions", freeVars, "free variable(s)">>]

\* A mutant of analyzeRref: the point read from the pivot rows is returned
\* for a system with free variables too.
analyzeRrefPointAlways(rrefMatrix) ==
  LET numRows == Len(rrefMatrix)
      numCols == IF numRows = 0 THEN 0 ELSE Len(At(rrefMatrix, 0))
      numVars == numCols - 1
      scan == RankScan(rrefMatrix, 0, numCols, 0)
      rank == scan.rank
      freeVars == numVars - rank
      solPoint == <<PivotValueFor(rrefMatrix, 0, 0, rank, Zero),
                    PivotValueFor(rrefMatrix, 1, 0, rank, Zero),
                    PivotValueFor(rrefMatrix, 2, 0, rank, Zero)>>
      inf == infiniteSolutionType(numVars, freeVars, rank)
  IN IF numRows = 0
       THEN [consistency |-> "inconsistent", solutionType |-> "none",
             solutionString |-> <<"No equations.">>, solutionPoint |-> Null]
     ELSE IF numCols < 2
       THEN [consistency |-> "inconsistent", solutionType |-> "none",
             solutionString |-> <<"Invalid matrix shape.">>, solutionPoint |-> Null]
     ELSE IF scan.inconsistent
       THEN [consistency |-> "inconsistent", solutionType |-> "none",
             solutionString |-> <<"Inconsistent system (no solution).">>,
             solutionPoint |-> Null]
     ELSE IF rank = numVars
       THEN [consistency |-> "consistent", solutionType |-> "unique",
             solutionString |-> <<"Unique Solution", toFixed2(solPoint[1]),
                                  toFixed2(solPoint[2]), toFixed2(solPoint[3])>>,
             solutionPoint |-> solPoint]
     ELSE [consistency |-> "consistent", solutionType |-> inf.type,
           solutionString |-> inf.typeStr, solutionPoint |-> solPoint]

\* The catch branch of the unique case is not modelled: reading numbers of a
\* rectangular matrix and toFixed throw nothing.
analyzeRref(rrefMatrix) ==
  LET numRows == Len(rrefMatrix)
      numCols == IF numRows = 0 THEN 0 ELSE Len(At(rrefMatrix, 0))
      numVars == numCols - 1
      scan == RankScan(rrefMatrix, 0, numCols, 0)
      rank == scan.rank
      freeVars == numVars - rank
      solPoint == <<PivotValueFor(rrefMatrix, 0, 0, rank, Zero),
                    PivotValueFor(rrefMatrix, 1, 0, rank, Zero),
                    PivotValueFor(rrefMatrix, 2, 0, rank, Zero)>>
      inf == infiniteSolutionType(numVars, freeVars, rank)
  IN IF numRows = 0
       THEN [consistency |-> "inconsistent", solutionType |-> "none",
             solutionString |-> <<"No equations.">>, solutionPoint |-> Null]
     ELSE IF numCols < 2
       THEN [consistency |-> "inconsistent", solutionType |-> "none",
             solutionString |-> <<"Invalid matrix shape.">>, solutionPoint |-> Null]
     ELSE IF scan.inconsistent
       THEN [consistency |-> "inconsistent", solutionType |-> "none",
             solutionString |-> <<"Inconsistent system (no solution).">>,
             solutionPoint |-> Null]
     ELSE IF rank = numVars
       THEN [consistency |-> "consistent", solutionType |-> "unique",
             solutionString |-> <<"Unique Solution", toFixed2(solPoint[1]),
                                  toFixed2(solPoint[2]), toFixed2(solPoint[3])>>,
             solutionPoint |-> solPoint]
     ELSE [consistency |-> "consistent", solutionType |-> inf.type,
           solutionString |-> inf.typeStr, solutionPoint |-> Null]

\* rrefAnalysis before any analysis was made
NoAnalysis ==
  [consistency |-> "null", solutionType |-> "null",
   solutionString |-> Null, solutionPoint |-> Null]

(***************************************************************************)
(* Geometry helpers                                                        *)
(***************************************************************************)
\* Vectors are triples of numbers.
VDot(u, v) == RAdd(RAdd(RMul(u[1], v[1]), RMul(u[2], v[2])), RMul(u[3], v[3]))
VCross(u, v) ==
  <<RSub(RMul(u[2], v[3]), RMul(u[3], v[2])),
    RSub(RMul(u[3], v[1]), RMul(u[1], v[3])),
    RSub(RMul(u[1], v[2]), RMul(u[2], v[1]))>>
VScale(u, k) == <<RMul(u[1], k), RMul(u[2], k), RMul(u[3], k)>>
VAdd(u, v) == <<RAdd(u[1], v[1]), RAdd(u[2], v[2]), RAdd(u[3], v[3])>>
VSub(u, v) == <<RSub(u[1], v[1]), RSub(u[2], v[2]), RSub(u[3], v[3])>>
lengthSq(u) == VDot(u, u)

\* x * 10^k < y, for x >= 0: the comparisons against EPSILON = 10^-6 and
\* SQ_EPSILON = 10^-12, taken one factor of ten at a time.
RECURSIVE LessScaled(_, _, _)
LessScaled(x, y, k) ==
  IF ~RLess(x, y) THEN FALSE
  ELSE IF k = 0 THEN TRUE
  ELSE LessScaled(RMul(x, R(10)), y, k - 1)

\* A mutant of getPlaneTransformFromRow: the position is normal * d, not
\* divided by the squared length.
getPlaneTransformFromRowUndivided(row) ==
  IF Len(row) < 4 THEN Null
  ELSE LET normal == <<row[1], row[2], row[3]>>
           d_rhs == row[4]
           normalLenSq == lengthSq(normal)
       IN IF LessScaled(normalLenSq, One, 12)
            THEN [position |-> <<Zero, R(-999), Zero>>,
                  dir |-> <<Zero, Zero, One>>,
                  isValid |-> LessScaled(RAbs(d_rhs), One, 6)]
            ELSE [position |-> VScale(normal, d_rhs),
                  dir |-> normal,
                  isValid |-> TRUE]

\* A mutant of getPlaneTransformFromRow: a row without normal is valid
\* whatever its constant.
getPlaneTransformFromRowAlwaysValid(row) ==
  IF Len(row) < 4 THEN Null
  ELSE LET normal == <<row[1], row[2], row[3]>>
           d_rhs == row[4]
           normalLenSq == lengthSq(normal)
       IN IF LessScaled(normalLenSq, One, 12)
            THEN [position |-> <<Zero, R(-999), Zero>>,
                  dir |-> <<Zero, Zero, One>>,
                  isValid |-> TRUE]
            ELSE [position |-> VScale(normal, RDiv(d_rhs, normalLenSq)),
                  dir |-> normal,
                  isValid |-> TRUE]

\* getPlaneTransformFromRow: null for a row of fewer than four entries. The
\* orientation is kept as the direction the plane's normal (0,0,1) is turned
\* to (dir, not normalised); Euler() leaves it at (0,0,1).
getPlaneTransformFromRow(row) ==
  IF Len(row) < 4 THEN Null
  ELSE LET normal == <<row[1], row[2], row[3]>>
           d_rhs == row[4]
           normalLenSq == lengthSq(normal)
       IN IF LessScaled(normalLenSq, One, 12)
            THEN [position |-> <<Zero, R(-999), Zero>>,
                  dir |-> <<Zero, Zero, One>>,
                  isValid |-> LessScaled(RAbs(d_rhs), One, 6)]
            ELSE [position |-> VScale(normal, RDiv(d_rhs, normalLenSq)),
                  dir |-> normal,
                  isValid |-> TRUE]

\* A mutant of intersectThreePlanes: the first term takes n3 x n2 for n2 x n3.
intersectThreePlanesCrossed(p1, p2, p3) ==
  LET det == VDot(p1.dir, VCross(p2.dir, p3.dir))
      lens == RMul(RMul(lengthSq(p1.dir), lengthSq(p2.dir)), lengthSq(p3.dir))
      r1 == VDot(p1.dir, p1.position)
      r2 == VDot(p2.dir, p2.position)
      r3 == VDot(p3.dir, p3.position)
      sum == VAdd(VAdd(VScale(VCross(p3.dir, p2.dir), r1),
                       VScale(VCross(p3.dir, p1.dir), r2)),
                  VScale(VCross(p1.dir, p2.dir), r3))
  IN IF LessScaled(RMul(det, det), lens, 12) THEN Null
     ELSE VScale(sum, RDiv(One, det))

\* intersectThreePlanes: null when |det| < EPSILON for the determinant of the
\* unit normals, else the common point of the three planes
\* dir . x = dir . position.
intersectThreePlanes(p1, p2, p3) ==
  LET det == VDot(p1.dir, VCross(p2.dir, p3.dir))
      lens == RMul(RMul(lengthSq(p1.dir), lengthSq(p2.dir)), lengthSq(p3.dir))
      r1 == VDot(p1.dir, p1.position)
      r2 == VDot(p2.dir, p2.position)
      r3 == VDot(p3.dir, p3.position)
      sum == VAdd(VAdd(VScale(VCross(p2.dir, p3.dir), r1),
                       VScale(VCross(p3.dir, p1.dir), r2)),
                  VScale(VCross(p1.dir, p2.dir), r3))
  IN IF LessScaled(RMul(det, det), lens, 12) THEN Null
     ELSE VScale(sum, RDiv(One, det))

\* intersectPlanePlane: null when the squared length of the cross product of
\* the unit normals is below SQ_EPSILON, else a point of the common line and
\* its direction (not normalised).
intersectPlanePlane(p1, p2) ==
  LET cross == VCross(p1.dir, p2.dir)
      crossSq == lengthSq(cross)
      lens == RMul(lengthSq(p1.dir), lengthSq(p2.dir))
      r1 == VDot(p1.dir, p1.position)
      r2 == VDot(p2.dir, p2.position)
      terms == VSub(VScale(p2.dir, r1), VScale(p1.dir, r2))
  IN IF LessScaled(crossSq, lens, 12) THEN Null
     ELSE [linePoint |-> VScale(VCross(terms, cross), RDiv(One, crossSq)),
           lineDirection |-> cross]

(***************************************************************************)
(* Inputs                                                                  *)
(***************************************************************************)
\* The largest number of equations (rows) of an input matrix.
MaxRows == 3

\* A row of integers as a row of numbers.
IntRow(r) == [j \in 1..Len(r) |-> R(r[j])]

\* const sampleMatrix
sampleMatrix ==
  <<IntRow(<<1, 2, -1, 3>>), IntRow(<<2, 1, 1, 3>>), IntRow(<<1, 1, 1, 2>>)>>

\* The matrices of README.md, Test Cases 1 to 5.
TestCase1 ==
  <<IntRow(<<1, 0, 0, 1>>), IntRow(<<0, 1, 0, 2>>), IntRow(<<0, 0, 1, 3>>)>>
TestCase2 ==
  <<IntRow(<<1, 1, 1, 3>>), IntRow(<<1, -1, 1, 1>>), IntRow(<<2, 1, -1, 2>>)>>
TestCase3 ==
  <<IntRow(<<1, 1, 1, 3>>), IntRow(<<1, -1, 1, 1>>), IntRow(<<2, 0, 2, 4>>)>>
TestCase4 ==
  <<IntRow(<<1, 1, 1, 2>>), IntRow(<<2, 2, 2, 4>>), IntRow(<<-1, -1, -1, -2>>)>>
TestCase5 ==
  <<IntRow(<<1, 1, 1, 2>>), IntRow(<<1, 1, 1, 4>>), IntRow(<<1, -1, 0, 1>>)>>

\* Entries of the small matrices that are enumerated in full.
Vals == {R(-1), R(0), R(1), R(2)}

\* Equation rows of three unknowns: rows of the documented examples, a
\* multiple of one of them with halves, the zero row and the row 0 = 5.
RowPool ==
  { IntRow(<<1, 0, 0, 1>>), IntRow(<<1, 1, 1, 3>>), IntRow(<<1, -1, 1, 1>>),
    IntRow(<<2, 1, -1, 2>>), IntRow(<<2, 2, 2, 4>>),
    <<Half(1), Half(1), Half(1), Half(3)>>,
    IntRow(<<0, 0, 0, 0>>), IntRow(<<0, 0, 0, 5>>) }

\* Matrices without rows or without columns.
EmptyInputs == {<<>>} \cup {[i \in 1..n |-> <<>>] : n \in 1..MaxRows}

\* Every matrix of at most MaxRows rows, at most three columns and at most
\* six cells over Vals.
SmallInputs ==
  UNION { [1..r -> [1..c -> Vals]] :
            <<r, c>> \in {rc \in (1..MaxRows) \X (1..3) : rc[1] * rc[2] <= 6} }

\* Every system of at most MaxRows equations drawn from RowPool.
PoolInputs == UNION { [1..r -> RowPool] : r \in 1..MaxRows }

\* Inputs with entries at the scale of EPSILON: values the tolerance tests of
\* the engine leave in place (|v| <= EPSILON is not eliminated) next to
\* small pivots that scale them up, values below EPSILON that stand alone in
\* a column, and a constant that a scaling brings below EPSILON.
Milli == Norm(1, 1000)
HalfEpsilon == Norm(1, 2000000)
ToleranceInputs ==
  { <<<<One, Zero, Zero>>, <<EPSILON, Milli, Zero>>>>,
    <<<<One, Zero, One, Zero>>, <<Zero, One, Zero, Zero>>,
      <<Zero, EPSILON, Milli, Zero>>>>,
    <<<<One, Zero, Zero>>, <<EPSILON, Milli, Zero>>,
      <<RSub(Zero, EPSILON), Milli, Zero>>>>,
    <<<<One, Zero, R(2)>>, <<EPSILON, Milli, One>>>>,
    <<<<EPSILON, One>>, <<HalfEpsilon, One>>>>,
    <<<<One, Zero, Zero, One>>, <<Zero, One, Zero, One>>,
      <<Zero, HalfEpsilon, Milli, One>>>>,
    <<<<One, Zero, Zero, Zero>>, <<Zero, One, Zero, Zero>>,
      <<Zero, Zero, HalfEpsilon, HalfEpsilon>>>>,
    <<<<R(2), Zero, Zero, EPSILON>>, <<Zero, One, Zero, One>>,
      <<Zero, Zero, One, One>>>>,
    <<<<One, Zero, Zero, Zero>>, <<EPSILON, Milli, Zero, Zero>>,
      <<RSub(Zero, EPSILON), Milli, Zero, Zero>>>> }

Inputs ==
  EmptyInputs \cup SmallInputs \cup PoolInputs \cup ToleranceInputs
    \cup {sampleMatrix, TestCase1, TestCase2, TestCase3, TestCase4, TestCase5}

(***************************************************************************)
(* The engine and the analyzer applied to an input                         *)
(***************************************************************************)
\* A row of zeros of the given width, and a matrix with a row inserted before
\* the row of index pos.
ZeroRow(width) == [j \in 1..width |-> Zero]
InsertRow(M, pos, row) == SubSeq(M, 1, pos) \o <<row>> \o SubSeq(M, pos + 1, Len(M))

\* The widths a row of zeros inserted into M can have: the width of the rows
\* of M, any width up to four when M has no row.
ZeroRowWidths(M) == IF Len(M) = 0 THEN 0..4 ELSE {Len(M[1])}

\* No row of zeros was inserted yet.
NoZeroed ==
  [pos |-> -1, width |-> 0, rankBefore |-> -1, rank |-> -1, result |-> NoAnalysis]

VARIABLES
  input,     \* the matrix the caller passes, as it was when passed
  es,        \* the state of the running calculateRrefSteps
  phase,     \* "input", "ready", "running", "analyzed", "rerun"
  direct,    \* analyzeRref(input)
  first,     \* the history the first run returned
  analysis,  \* analyzeRref of the last entry of that history
  zeroed     \* the analysis of the input with a row of zeros inserted

\* The state of useLinePlaneStore (interface LinePlaneStoreState).
VARIABLES
  objects,                  \* the ids of the planes, in order
  selectedObjectId,         \* <<id>>, or Null
  mode,                     \* "random", "equation", "rref"
  initialRrefMatrix,
  rrefHistory,
  rrefStepIndex,
  rrefState,                \* "editing", "viewing"
  rrefAnalysis,
  rrefUniqueSolutionPoint,
  edits                     \* the number of cell edits made so far

\* The helpers of the scene applied to three equation rows.
VARIABLES
  rows,        \* the three rows
  transforms,  \* getPlaneTransformFromRow of each, once taken
  found,       \* the results of the intersection helpers, once taken
  helper       \* "rows", "planes", "found"; "aside" when not followed

engineVars == <<input, es, phase, direct, first, analysis, zeroed>>
geoVars == <<rows, transforms, found, helper>>
storeVars ==
  <<objects, selectedObjectId, mode, initialRrefMatrix, rrefHistory,
    rrefStepIndex, rrefState, rrefAnalysis, rrefUniqueSolutionPoint, edits>>
vars == <<engineVars, storeVars, geoVars>>

\* The store as create<LinePlaneStoreState>(...) builds it.
StoreConstructed ==
  /\ objects = <<>>
  /\ selectedObjectId = Null
  /\ mode = "random"
  /\ initialRrefMatrix = sampleMatrix
  /\ rrefHistory = <<>>
  /\ rrefStepIndex = -1
  /\ rrefState = "editing"
  /\ rrefAnalysis = NoAnalysis
  /\ rrefUniqueSolutionPoint = Null
  /\ edits = 0

\* The helpers of the scene are not followed.
NoFound == [lines |-> <<>>, point |-> <<>>]
GeoAside ==
  /\ rows = <<>>
  /\ transforms = <<>>
  /\ found = NoFound
  /\ helper = "aside"

\* The engine before the call: the caller's matrix laid out in the heap.
IdleEngine(M) ==
  [heap |-> HeapOf(M), history |-> <<>>, matrix |-> Len(M) + 1,
   initial |-> Len(M) + 1, pivotRow |-> 0, pivotCol |-> 0,
   i |-> 0, k |-> 0, backCol |-> -1, pc |-> "idle"]

InitEngine ==
  /\ input \in Inputs
  /\ es = IdleEngine(input)
  /\ phase = "input"
  /\ direct = NoAnalysis
  /\ first = <<>>
  /\ analysis = NoAnalysis
  /\ zeroed = NoZeroed
  /\ StoreConstructed
  /\ GeoAside

\* analyzeRref is applied to the matrix as given.
AnalyzeInput ==
  /\ phase = "input"
  /\ direct' = analyzeRref(input)
  /\ phase' = "ready"
  /\ UNCHANGED <<input, es, first, analysis, zeroed, storeVars, geoVars>>

\* calculateRrefSteps(initialMatrix) is entered.
Start ==
  /\ phase = "ready"
  /\ es' = StartStep(es.heap, es.initial)
  /\ phase' = "running"
  /\ UNCHANGED <<input, direct, first, analysis, zeroed, storeVars, geoVars>>

\* One step of the running engine.
Step ==
  /\ phase \in {"running", "rerun"}
  /\ es.pc # "done"
  /\ es' = EngineStep(es)
  /\ UNCHANGED <<input, phase, direct, first, analysis, zeroed, storeVars, geoVars>>

\* The engine has returned: const finalMatrix = history.length > 0 ?
\* history[history.length - 1] : initialMatrix; analyzeRref(finalMatrix).
Analyze ==
  /\ phase = "running"
  /\ es.pc = "done"
  /\ first' = HistoryOf(es)
  /\ analysis' = analyzeRref(IF Len(es.history) > 0
                              THEN Deref(es.heap, es.history[Len(es.history)])
                              ELSE Deref(es.heap, es.initial))
  /\ phase' = "analyzed"
  /\ UNCHANGED <<input, es, direct, zeroed, storeVars, geoVars>>

\* calculateRrefSteps is entered again, on the last entry of the history.
Rerun ==
  /\ phase = "analyzed"
  /\ es' = StartStep(es.heap, es.history[Len(es.history)])
  /\ phase' = "rerun"
  /\ UNCHANGED <<input, direct, first, analysis, zeroed, storeVars, geoVars>>

\* analyzeRref is applied to the input with a row of zeros inserted.
AnalyzeWithZeroRow ==
  /\ phase = "ready"
  /\ \E pos \in 0..Len(input), width \in ZeroRowWidths(input) :
       LET padded == InsertRow(input, pos, ZeroRow(width))
       IN zeroed' = [pos |-> pos, width |-> width, rankBefore |-> rankOf(input),
                     rank |-> rankOf(padded), result |-> analyzeRref(padded)]
  /\ phase' = "padded"
  /\ UNCHANGED <<input, es, direct, first, analysis, storeVars, geoVars>>

NextEngine ==
  AnalyzeInput \/ AnalyzeWithZeroRow \/ Start \/ Step \/ Analyze \/ Rerun

SpecEngine == InitEngine /\ [][NextEngine]_vars

(***************************************************************************)
(* useLinePlaneStore                                                       *)
(***************************************************************************)
\* The largest number of planes in objects, and of cell edits in a run.
MaxObjects == 1
MaxEdits == 1

\* generateUUID(): an id no object has had yet in this store.
ObjectIds == 1..MaxObjects
Modes == {"random", "equation", "rref"}

\* The values written into a cell.
EditVals == {Zero, Half(1)}

\* Matrices the user has edited the sample matrix into, cell by cell, after
\* opening the RREF panel.
EditedMatrices ==
  { sampleMatrix, TestCase1, TestCase2, TestCase3, TestCase4, TestCase5,
    <<IntRow(<<1, 1, 1, 2>>), IntRow(<<0, 0, 0, 0>>), IntRow(<<0, 0, 0, 0>>)>>,
    <<IntRow(<<0, 0, 0, 0>>), IntRow(<<1, 0, 1, 2>>), IntRow(<<0, 1, 0, 1>>)>>,
    <<IntRow(<<0, 0, 0, 5>>), IntRow(<<0, 0, 0, 0>>), IntRow(<<1, 0, 0, 1>>)>>,
    <<IntRow(<<0, 0, 0, 0>>), IntRow(<<0, 0, 0, 0>>), IntRow(<<0, 0, 0, 0>>)>> }

\* The engine is not followed step by step while the store is.
EngineAside ==
  /\ input = <<>>
  /\ es = IdleEngine(<<>>)
  /\ phase = "store"
  /\ direct = NoAnalysis
  /\ first = <<>>
  /\ analysis = NoAnalysis
  /\ zeroed = NoZeroed

\* The store as constructed, or with the RREF panel open on an edited matrix
\* (setMode("rref") followed by cell edits).
Init ==
  /\ EngineAside
  /\ GeoAside
  /\ objects = <<>>
  /\ selectedObjectId = Null
  /\ \/ mode = "random" /\ initialRrefMatrix = sampleMatrix
     \/ mode = "rref" /\ initialRrefMatrix \in EditedMatrices
  /\ rrefHistory = <<>>
  /\ rrefStepIndex = -1
  /\ rrefState = "editing"
  /\ rrefAnalysis = NoAnalysis
  /\ rrefUniqueSolutionPoint = Null
  /\ edits = 0

rrefVars ==
  <<initialRrefMatrix, rrefHistory, rrefStepIndex, rrefState, rrefAnalysis,
    rrefUniqueSolutionPoint>>

\* addPlane: a plane with a fresh id is appended and selected.
addPlane ==
  /\ Len(objects) < MaxObjects
  /\ \E id \in ObjectIds :
       /\ \A n \in 1..Len(objects) : objects[n] # id
       /\ objects' = Append(objects, id)
       /\ selectedObjectId' = <<id>>
  /\ UNCHANGED <<mode, rrefVars, edits, engineVars, geoVars>>

removeObject(id) ==
  /\ objects' = SelectSeq(objects, LAMBDA obj : obj # id)
  /\ selectedObjectId' = IF selectedObjectId = <<id>> THEN Null ELSE selectedObjectId
  /\ UNCHANGED <<mode, rrefVars, edits, engineVars, geoVars>>

selectObject(id) ==
  /\ selectedObjectId' = id
  /\ UNCHANGED <<objects, mode, rrefVars, edits, engineVars, geoVars>>

clearAll ==
  /\ objects' = <<>>
  /\ selectedObjectId' = Null
  /\ UNCHANGED <<mode, rrefVars, edits, engineVars, geoVars>>

\* A mutant of setMode: entering rref mode keeps the history and the analysis.
setModeKeepsHistory(newMode) ==
  /\ IF newMode = "rref"
       THEN /\ mode' = "rref"
            /\ rrefState' = "editing"
            /\ initialRrefMatrix' = sampleMatrix
            /\ objects' = <<>>
            /\ selectedObjectId' = Null
            /\ UNCHANGED <<rrefHistory, rrefStepIndex, rrefAnalysis,
                           rrefUniqueSolutionPoint>>
       ELSE /\ mode' = newMode
            /\ rrefHistory' = <<>>
            /\ rrefStepIndex' = -1
            /\ rrefAnalysis' = NoAnalysis
            /\ rrefUniqueSolutionPoint' = Null
            /\ UNCHANGED <<rrefState, initialRrefMatrix, objects, selectedObjectId>>
  /\ UNCHANGED <<edits, engineVars, geoVars>>

\* A mutant of setMode: leaving the RREF panel keeps the solution point.
setModeKeepsPoint(newMode) ==
  /\ IF newMode = "rref"
       THEN /\ mode' = "rref"
            /\ rrefState' = "editing"
            /\ initialRrefMatrix' = sampleMatrix
            /\ rrefHistory' = <<>>
            /\ rrefStepIndex' = -1
            /\ rrefAnalysis' = NoAnalysis
            /\ rrefUniqueSolutionPoint' = Null
            /\ objects' = <<>>
            /\ selectedObjectId' = Null
       ELSE /\ mode' = newMode
            /\ rrefHistory' = <<>>
            /\ rrefStepIndex' = -1
            /\ rrefAnalysis' = NoAnalysis
            /\ UNCHANGED <<rrefUniqueSolutionPoint, rrefState, initialRrefMatrix,
                           objects, selectedObjectId>>
  /\ UNCHANGED <<edits, engineVars, geoVars>>

setMode(newMode) ==
  /\ IF newMode = "rref"
       THEN /\ mode' = "rref"
            /\ rrefState' = "editing"
            /\ initialRrefMatrix' = sampleMatrix
            /\ rrefHistory' = <<>>
            /\ rrefStepIndex' = -1
            /\ rrefAnalysis' = NoAnalysis
            /\ rrefUniqueSolutionPoint' = Null
            /\ objects' = <<>>
            /\ selectedObjectId' = Null
       ELSE /\ mode' = newMode
            /\ rrefHistory' = <<>>
            /\ rrefStepIndex' = -1
            /\ rrefAnalysis' = NoAnalysis
            /\ rrefUniqueSolutionPoint' = Null
            /\ UNCHANGED <<rrefState, initialRrefMatrix, objects, selectedObjectId>>
  /\ UNCHANGED <<edits, engineVars, geoVars>>

\* A mutant of updateInitialRrefCell: a written cell discards the history.
updateInitialRrefCellDiscards(row, col, value) ==
  /\ edits < MaxEdits
  /\ edits' = edits + 1
  /\ IF row < 0 \/ row >= Len(initialRrefMatrix)
          \/ col < 0 \/ col >= Len(initialRrefMatrix[1])
       THEN UNCHANGED <<initialRrefMatrix, rrefHistory, rrefStepIndex>>
       ELSE /\ initialRrefMatrix' =
                 [initialRrefMatrix EXCEPT ![row + 1][col + 1] = value]
            /\ rrefHistory' = <<>>
            /\ rrefStepIndex' = -1
  /\ UNCHANGED <<objects, selectedObjectId, mode,
                 rrefState, rrefAnalysis, rrefUniqueSolutionPoint, engineVars, geoVars>>

\* updateInitialRrefCell: nothing outside the matrix; else a copy of the
\* matrix with the cell written replaces it.
updateInitialRrefCell(row, col, value) ==
  /\ edits < MaxEdits
  /\ edits' = edits + 1
  /\ IF row < 0 \/ row >= Len(initialRrefMatrix)
          \/ col < 0 \/ col >= Len(initialRrefMatrix[1])
       THEN UNCHANGED initialRrefMatrix
       ELSE initialRrefMatrix' =
              [initialRrefMatrix EXCEPT ![row + 1][col + 1] = value]
  /\ UNCHANGED <<objects, selectedObjectId, mode, rrefHistory, rrefStepIndex,
                 rrefState, rrefAnalysis, rrefUniqueSolutionPoint, engineVars, geoVars>>

\* A mutant of calculateAndStartRrefViewing: the reduced matrix is written
\* back as the editable matrix.
calculateAndStartRrefViewingWritesBack ==
  \E run \in {RunEngine(StartStep(HeapOf(initialRrefMatrix),
                                   Len(initialRrefMatrix) + 1))} :
    \E history \in {HistoryOf(run)} :
      \E result \in {analyzeRref(history[Len(history)])} :
        /\ initialRrefMatrix' = history[Len(history)]
        /\ rrefHistory' = history
        /\ rrefStepIndex' = 0
        /\ rrefState' = "viewing"
        /\ rrefAnalysis' = result
        /\ rrefUniqueSolutionPoint' = result.solutionPoint
        /\ UNCHANGED <<objects, selectedObjectId, mode, edits, engineVars, geoVars>>

\* calculateAndStartRrefViewing: the engine is run on the store's matrix
\* object; the matrix is read back from that object after the run.
calculateAndStartRrefViewing ==
  \E run \in {RunEngine(StartStep(HeapOf(initialRrefMatrix),
                                   Len(initialRrefMatrix) + 1))} :
    \E history \in {HistoryOf(run)} :
      \E initialMatrix \in {Deref(run.heap, run.initial)} :
        \E result \in {analyzeRref(IF Len(history) > 0 THEN history[Len(history)]
                                   ELSE initialMatrix)} :
          /\ initialRrefMatrix' = initialMatrix
          /\ rrefHistory' = history
          /\ rrefStepIndex' = 0
          /\ rrefState' = "viewing"
          /\ rrefAnalysis' = result
          /\ rrefUniqueSolutionPoint' = result.solutionPoint
          /\ UNCHANGED <<objects, selectedObjectId, mode, edits, engineVars, geoVars>>

\* A mutant of resetRrefToEditing: the solution point is kept and the
\* selection is dropped.
resetRrefToEditingKeepsPoint ==
  /\ rrefState' = "editing"
  /\ rrefHistory' = <<>>
  /\ rrefStepIndex' = -1
  /\ rrefAnalysis' = NoAnalysis
  /\ selectedObjectId' = Null
  /\ UNCHANGED <<objects, rrefUniqueSolutionPoint, mode, initialRrefMatrix, edits,
                 engineVars, geoVars>>

resetRrefToEditing ==
  /\ rrefState' = "editing"
  /\ rrefHistory' = <<>>
  /\ rrefStepIndex' = -1
  /\ rrefAnalysis' = NoAnalysis
  /\ rrefUniqueSolutionPoint' = Null
  /\ UNCHANGED <<objects, selectedObjectId, mode, initialRrefMatrix, edits,
                 engineVars, geoVars>>

Max(a, b) == IF a > b THEN a ELSE b
Min(a, b) == IF a < b THEN a ELSE b

\* A mutant of stepRrefHistory: the state is not tested.
stepRrefHistoryAnyState(direction) ==
  /\ IF direction = "back"
       THEN rrefStepIndex' = Max(0, rrefStepIndex - 1)
     ELSE IF direction = "forward"
       THEN rrefStepIndex' = Min(Len(rrefHistory) - 1, rrefStepIndex + 1)
     ELSE UNCHANGED rrefStepIndex
  /\ UNCHANGED <<objects, selectedObjectId, mode, initialRrefMatrix, rrefHistory,
                 rrefState, rrefAnalysis, rrefUniqueSolutionPoint, edits,
                 engineVars, geoVars>>

\* A mutant of stepRrefHistory: the index moves without Math.max / Math.min.
stepRrefHistoryUnclamped(direction) ==
  /\ IF rrefState # "viewing" THEN UNCHANGED rrefStepIndex
     ELSE IF direction = "back"
       THEN rrefStepIndex' = rrefStepIndex - 1
     ELSE IF direction = "forward"
       THEN rrefStepIndex' = rrefStepIndex + 1
     ELSE UNCHANGED rrefStepIndex
  /\ UNCHANGED <<objects, selectedObjectId, mode, initialRrefMatrix, rrefHistory,
                 rrefState, rrefAnalysis, rrefUniqueSolutionPoint, edits,
                 engineVars, geoVars>>

stepRrefHistory(direction) ==
  /\ IF rrefState # "viewing" THEN UNCHANGED rrefStepIndex
     ELSE IF direction = "back"
       THEN rrefStepIndex' = Max(0, rrefStepIndex - 1)
     ELSE IF direction = "forward"
       THEN rrefStepIndex' = Min(Len(rrefHistory) - 1, rrefStepIndex + 1)
     ELSE UNCHANGED rrefStepIndex
  /\ UNCHANGED <<objects, selectedObjectId, mode, initialRrefMatrix, rrefHistory,
                 rrefState, rrefAnalysis, rrefUniqueSolutionPoint, edits,
                 engineVars, geoVars>>

RemoveObject == \E id \in ObjectIds : removeObject(id)
SelectObject == \E id \in {Null} \cup {<<i>> : i \in ObjectIds} : selectObject(id)
SetMode == \E newMode \in Modes : setMode(newMode)
\* The cells a call of the store's own operation names: the first cell of
\* the matrix and the indices just outside it. (The panel's editor reaches
\* every cell: PanelAdjustCell.)
EditRows == {-1, 0, 3}
EditCols == {-1, 0, 4}
UpdateInitialRrefCell ==
  \E row \in EditRows, col \in EditCols, value \in EditVals :
    updateInitialRrefCell(row, col, value)
StepRrefHistory ==
  \E direction \in {"back", "forward"} : stepRrefHistory(direction)

Next ==
  \/ addPlane
  \/ RemoveObject
  \/ SelectObject
  \/ clearAll
  \/ SetMode
  \/ UpdateInitialRrefCell
  \/ calculateAndStartRrefViewing
  \/ resetRrefToEditing
  \/ StepRrefHistory

Spec == Init /\ [][Next]_vars

(***************************************************************************)
(* The store as the panels drive it                                        *)
(***************************************************************************)
RMax(a, b) == IF RLess(a, b) THEN b ELSE a
RMin(a, b) == IF RLess(a, b) THEN a ELSE b

\* ValueAdjuster: handleDecrement and handleIncrement of a matrix cell
\* (increment 0.5, min -10, max 10).
handleDecrement(value) == RMax(R(-10), RSub(value, Half(1)))
handleIncrement(value) == RMin(R(10), RAdd(value, Half(1)))

\* "Add Random Plane" of ControlPanel, "Spawn Plane" of EquationPanel, the
\* seeding effect of ARScene.
PanelAddPlane == mode # "rref" /\ addPlane

\* "Delete Selected" of ControlPanel.
PanelDeleteSelected ==
  /\ mode = "random"
  /\ selectedObjectId # Null
  /\ removeObject(selectedObjectId[1])

\* "Clear All" of ControlPanel.
PanelClearAll == mode = "random" /\ clearAll

\* A plane is selected by pointing at it (none is drawn in rref mode).
PanelSelect ==
  /\ mode # "rref"
  /\ \E n \in 1..Len(objects) : selectObject(<<objects[n]>>)

\* "Define Plane Eq", "Setup RREF", "Back to Controls".
PanelSetMode ==
  \/ mode = "random" /\ (setMode("equation") \/ setMode("rref"))
  \/ mode # "random" /\ setMode("random")

\* A cell's ValueAdjuster, offered by RrefPanel while editing.
PanelAdjustCell ==
  /\ mode = "rref"
  /\ rrefState = "editing"
  /\ \E row \in 0..(Len(initialRrefMatrix) - 1),
        col \in 0..(Len(initialRrefMatrix[1]) - 1) :
       \/ updateInitialRrefCell(row, col,
             handleDecrement(initialRrefMatrix[row + 1][col + 1]))
       \/ updateInitialRrefCell(row, col,
             handleIncrement(initialRrefMatrix[row + 1][col + 1]))

\* "Calculate RREF", offered while editing.
PanelCalculate ==
  mode = "rref" /\ rrefState = "editing" /\ calculateAndStartRrefViewing

\* "Prev" and "Next", offered while viewing and not disabled.
PanelStep ==
  /\ mode = "rref"
  /\ rrefState = "viewing"
  /\ \/ ~(rrefStepIndex <= 0) /\ stepRrefHistory("back")
     \/ ~(rrefStepIndex >= Len(rrefHistory) - 1) /\ stepRrefHistory("forward")

\* "Reset / Edit", offered while viewing.
PanelReset == mode = "rref" /\ rrefState = "viewing" /\ resetRrefToEditing

NextPanel ==
  \/ PanelAddPlane
  \/ PanelDeleteSelected
  \/ PanelClearAll
  \/ PanelSelect
  \/ PanelSetMode
  \/ PanelAdjustCell
  \/ PanelCalculate
  \/ PanelStep
  \/ PanelReset

SpecPanel == Init /\ [][NextPanel]_vars

(***************************************************************************)
(* What ARScene derives from the store (useMemo)                           *)
(***************************************************************************)
\* matrixToVisualize of rrefPlaneData
matrixToVisualize ==
  IF rrefState = "viewing" /\ rrefStepIndex >= 0 /\ rrefStepIndex < Len(rrefHistory)
    THEN rrefHistory[rrefStepIndex + 1]
    ELSE initialRrefMatrix

\* rrefPlaneData: a record per row for which getPlaneTransformFromRow is not
\* null, in row order; [] outside rref mode.
rrefPlaneData ==
  IF mode # "rref" THEN <<>>
  ELSE LET all == [index \in 1..Len(matrixToVisualize) |->
                     [index |-> index - 1,
                      transform |-> getPlaneTransformFromRow(matrixToVisualize[index])]]
           kept == SelectSeq(all, LAMBDA pd : pd.transform # Null)
       IN [n \in 1..Len(kept) |->
             [index |-> kept[n].index,
              position |-> kept[n].transform.position,
              dir |-> kept[n].transform.dir,
              isValid |-> kept[n].transform.isValid]]

\* The planes drawn in rref mode: rrefPlaneData.map((plane) => plane.isValid && ...)
drawnPlanes == SelectSeq(rrefPlaneData, LAMBDA pd : pd.isValid)

\* activePlanes of intersections, in rref mode
activePlanes == SelectSeq(rrefPlaneData, LAMBDA pd : pd.isValid)

\* The index pairs i < j and triples i < j < k of activePlanes.
PlanePairs ==
  {ij \in (1..Len(activePlanes)) \X (1..Len(activePlanes)) : ij[1] < ij[2]}
PlaneTriples ==
  {ijk \in (1..Len(activePlanes)) \X (1..Len(activePlanes)) \X (1..Len(activePlanes)) :
     ijk[1] < ijk[2] /\ ijk[2] < ijk[3]}

\* The results of type "line": one per pair of active planes that
\* intersectPlanePlane finds a line for.
intersectionLines ==
  { [planes |-> ij,
     data |-> intersectPlanePlane(activePlanes[ij[1]], activePlanes[ij[2]])] :
      ij \in {pq \in PlanePairs :
                intersectPlanePlane(activePlanes[pq[1]], activePlanes[pq[2]]) # Null} }

\* The results of type "point" pushed by the triple loop
\* (if (activePlanes.length >= 3) ...).
triplePoints ==
  { [planes |-> ijk,
     data |-> intersectThreePlanes(activePlanes[ijk[1]], activePlanes[ijk[2]],
                                   activePlanes[ijk[3]])] :
      ijk \in {pqr \in PlaneTriples :
                 intersectThreePlanes(activePlanes[pqr[1]], activePlanes[pqr[2]],
                                      activePlanes[pqr[3]]) # Null} }

\* results.some((r) => r.isSolutionPoint &&
\*   r.data.distanceToSquared(rrefUniqueSolutionPoint) < SQ_EPSILON)
alreadyFound ==
  \E r \in triplePoints :
    LessScaled(lengthSq(VSub(r.data, rrefUniqueSolutionPoint)), One, 12)

\* The result "rref-solution-pt", when it is pushed.
solutionPointResults ==
  IF mode = "rref" /\ rrefAnalysis.solutionType = "unique"
       /\ rrefUniqueSolutionPoint # Null /\ ~alreadyFound
    THEN {[planes |-> <<>>, data |-> rrefUniqueSolutionPoint]}
    ELSE {}

\* The results of type "point" of intersections, in rref mode.
intersectionPoints == triplePoints \cup solutionPointResults

(***************************************************************************)
(* The helpers of the scene applied to rows                                *)
(***************************************************************************)
\* Equation rows: the coordinate planes, rows of the documented examples,
\* parallel and coincident planes, a sum of two others, a normal of length
\* 1/10, rows without normal whose constant is 0, below EPSILON, EPSILON
\* and 5, and a row of three entries.
GeoRows ==
  { IntRow(<<1, 0, 0, 1>>), IntRow(<<0, 1, 0, 2>>), IntRow(<<0, 0, 1, 3>>),
    IntRow(<<1, 1, 1, 3>>), IntRow(<<2, 2, 2, 4>>), IntRow(<<2, 2, 2, 6>>),
    IntRow(<<-1, -1, -1, 1>>), IntRow(<<1, -1, 1, 1>>), IntRow(<<2, 0, 2, 4>>),
    <<Norm(1, 10), Zero, Zero, One>>,
    IntRow(<<0, 0, 0, 0>>), IntRow(<<0, 0, 0, 5>>),
    <<Zero, Zero, Zero, Norm(1, 2000000)>>,
    <<Zero, Zero, Zero, Norm(-1, 2000000)>>,
    <<Zero, Zero, Zero, EPSILON>>,
    IntRow(<<1, 0, 0>>) }

InitGeometry ==
  /\ EngineAside
  /\ StoreConstructed
  /\ rows \in GeoRows \X GeoRows \X GeoRows
  /\ transforms = <<>>
  /\ found = NoFound
  /\ helper = "rows"

\* getPlaneTransformFromRow is applied to each row (rrefPlaneData).
Transform ==
  /\ helper = "rows"
  /\ transforms' = [n \in 1..3 |-> getPlaneTransformFromRow(rows[n])]
  /\ helper' = "planes"
  /\ UNCHANGED <<rows, found, engineVars, storeVars>>

\* The pair loop and the triple loop of intersections over three planes that
\* are all valid.
PlanePairs3 == {<<1, 2>>, <<1, 3>>, <<2, 3>>}
Intersect ==
  /\ helper = "planes"
  /\ \A n \in 1..3 : transforms[n] # Null
  /\ \A n \in 1..3 : transforms[n].isValid
  /\ found' =
       [lines |-> [ij \in PlanePairs3 |->
                     intersectPlanePlane(transforms[ij[1]], transforms[ij[2]])],
        point |-> intersectThreePlanes(transforms[1], transforms[2], transforms[3])]
  /\ helper' = "found"
  /\ UNCHANGED <<rows, transforms, engineVars, storeVars>>

NextGeometry == Transform \/ Intersect

SpecGeometry == InitGeometry /\ [][NextGeometry]_vars

(***************************************************************************)
(* Properties                                                              *)
(***************************************************************************)
\* the column count of a matrix value: matrix[0]?.length || 0
ColsOf(M) == IF Len(M) = 0 THEN 0 ELSE Len(M[1])
LastOf(seq) == seq[Len(seq)]
IsZeroTol(v) == ~RGreater(RAbs(v), EPSILON)
IsOneTol(v) == ~RGreater(RAbs(RSub(v, One)), EPSILON)

\* The matrix the running engine was called with: the input in the first
\* run, the last entry of the first history in the second.
Argument == IF phase = "rerun" THEN LastOf(first) ELSE input
EngineEntered == phase \in {"running", "analyzed", "rerun"}

\* C2: the first entry of the history equals the input matrix element by
\* element from the moment it is recorded, through every later step, and the
\* caller's matrix keeps its value; a step never alters an entry that is
\* already in the history.
C2_FirstEntryIsInput ==
  /\ [](EngineEntered =>
          /\ Len(es.history) >= 1
          /\ Deref(es.heap, es.history[1]) = Argument
          /\ Deref(es.heap, es.initial) = Argument)
  /\ [][Step =>
          /\ Len(es'.history) >= Len(es.history)
          /\ \A n \in 1..Len(es.history) :
               /\ es'.history[n] = es.history[n]
               /\ Deref(es'.heap, es'.history[n]) = Deref(es.heap, es.history[n])]_vars

\* C2 witness: a run on a matrix of several rows has ended after at least
\* three row operations were recorded behind the first entry.
C2_Witness ==
  /\ phase = "running"
  /\ es.pc = "done"
  /\ Len(input) >= 2
  /\ Len(es.history) >= 4

\* C6: each entry of the history after the first differs from the entry
\* before it, and the last entry is the working matrix: a step that leaves
\* the matrix as it is (a pivot that is 1, an entry that is 0, a pivot row
\* left in place) appends nothing.
C6_SnapshotDiscipline ==
  EngineEntered =>
    /\ \A n \in 1..(Len(es.history) - 1) :
         Deref(es.heap, es.history[n + 1]) # Deref(es.heap, es.history[n])
    /\ Deref(es.heap, LastOf(es.history)) = Deref(es.heap, es.matrix)

\* C6 witness: a run on three equations has ended with only two snapshots
\* behind the first: most of its steps left the matrix as it was.
C6_Witness ==
  /\ phase = "running"
  /\ es.pc = "done"
  /\ Len(es.history) = 3
  /\ Len(input) = 3
  /\ ColsOf(input) = 4

\* The first column of 0..n-1 whose entry exceeds EPSILON in absolute value,
\* or -1: the leading nonzero entry of a row.
Leading(row, n) ==
  LET nonzero == {c \in 0..(n - 1) : ~IsZeroTol(At(row, c))}
  IN IF nonzero = {} THEN -1
     ELSE CHOOSE c \in nonzero : \A d \in nonzero : c <= d

\* The RREF predicate on the columns 0..n-1 of a matrix: in every row with a nonzero
\* entry among them, the leading one is 1 and every other row is 0 in its
\* column (1 and 0 within EPSILON).
RrefOn(mat, n) ==
  \A r \in 1..Len(mat) :
    LET c == Leading(mat[r], n)
    IN c # -1 =>
         /\ IsOneTol(At(mat[r], c))
         /\ \A q \in 1..Len(mat) : q # r => IsZeroTol(At(mat[q], c))

HasRows(M) == Len(M) >= 1 /\ ColsOf(M) >= 1

\* The entries of M are values of the matrix editor: multiples of 0.5 between
\* -10 and 10.
Coarse(M) ==
  \A r \in 1..Len(M) : \A c \in 1..Len(M[r]) :
    M[r][c][2] \in {1, 2} /\ IAbs(M[r][c][1]) <= 10 * M[r][c][2]

\* C1 as claimed: in the last entry of the history every row that is not all
\* zero, constant column included, has a leading entry 1 that is alone in its
\* column.
C1_LastIsRrefAllColumns ==
  (phase = "analyzed" /\ HasRows(input)) => RrefOn(LastOf(first), ColsOf(input))

\* C1: in the last entry of the history every row with a nonzero entry among
\* the variable columns has a leading entry 1 that is the only nonzero entry
\* of its column; a row 0 ... 0 | k keeps its constant k.
C1_LastIsRrefOnVariables ==
  (phase = "analyzed" /\ HasRows(input)) =>
     RrefOn(LastOf(first), ColsOf(input) - 1)

\* C1 witness: a finished reduction of several steps whose last matrix has a
\* pivot row and a row 0 ... 0 | k with k not 1.
C1_Witness ==
  /\ phase = "analyzed"
  /\ Len(first) >= 3
  /\ \E r \in 1..Len(input) : Leading(LastOf(first)[r], ColsOf(input) - 1) # -1
  /\ \E r \in 1..Len(input) :
       /\ Leading(LastOf(first)[r], ColsOf(input)) = ColsOf(input) - 1
       /\ ~IsOneTol(At(LastOf(first)[r], ColsOf(input) - 1))

\* C1, a run that ends outside the RREF predicate on the variable columns:
\* on [[1, 0, 0], [0.000001, 0.001, 0]] the last entry is
\* [[1, 0, 0], [0.001, 1, 0]], with 0.001 left in the pivot column of row 0.
C1_NotReduced ==
  /\ phase = "analyzed"
  /\ input = <<<<One, Zero, Zero>>, <<EPSILON, Milli, Zero>>>>
  /\ Len(first) = 2
  /\ At(LastOf(first)[1], 0) = One
  /\ At(LastOf(first)[2], 0) = Milli
  /\ ~RrefOn(LastOf(first), ColsOf(input) - 1)

\* C3: the engine run on the last entry of its own history returns a history
\* of exactly one entry, equal to that matrix.
C3_Idempotent ==
  (phase = "rerun" /\ es.pc = "done") =>
     /\ Len(es.history) = 1
     /\ HistoryOf(es) = <<LastOf(first)>>

\* C3 witness: the second run has ended on the outcome of a first run that
\* recorded row operations.
C3_Witness ==
  /\ phase = "rerun"
  /\ es.pc = "done"
  /\ Len(first) >= 4

\* C3, a second run that is not a fixed point: on the outcome
\* [[1, 0, 0], [0.001, 1, 0]] of the run on [[1, 0, 0], [0.000001, 0.001, 0]]
\* the engine eliminates the 0.001 and returns a history of two entries.
C3_NotFixedPoint ==
  /\ phase = "rerun"
  /\ es.pc = "done"
  /\ LastOf(first) = <<<<One, Zero, Zero>>, <<Milli, One, Zero>>>>
  /\ Len(es.history) = 2
  /\ LastOf(HistoryOf(es)) = <<<<One, Zero, Zero>>, <<Zero, One, Zero>>>>

\* a*x + b*y + c*z - d for a row of four entries and a point
Residual(row, pt) ==
  RSub(RAdd(RAdd(RMul(row[1], pt[1]), RMul(row[2], pt[2])), RMul(row[3], pt[3])),
       row[4])

\* C4: when the analysis of the last entry reports a unique solution for an
\* input of three variable columns, the point satisfies every row of the
\* input within EPSILON.
C4_UniqueRoundTrip ==
  (phase = "analyzed" /\ ColsOf(input) = 4 /\ analysis.solutionType = "unique") =>
     /\ analysis.solutionPoint # Null
     /\ \A r \in 1..Len(input) :
          IsZeroTol(Residual(input[r], analysis.solutionPoint))

\* C4 witness: a unique solution was reported after a reduction of several
\* steps of a system that is not yet reduced.
C4_Witness ==
  /\ phase = "analyzed"
  /\ ColsOf(input) = 4
  /\ analysis.solutionType = "unique"
  /\ Len(first) >= 6

\* C4, a reported unique point that is not a solution: on
\* [[1,0,0,1],[0,1,0,1],[0,0.0000005,0.001,1]] the last entry is
\* [[1,0,0,1],[0,1,0,1],[0,0.0005,1,1000]], the analysis reports the unique
\* point (1, 1, 0), and the third row of the input is off by 1.
C4_WrongPoint ==
  /\ phase = "analyzed"
  /\ input = <<<<One, Zero, Zero, One>>, <<Zero, One, Zero, One>>,
               <<Zero, HalfEpsilon, Milli, One>>>>
  /\ analysis.solutionType = "unique"
  /\ analysis.solutionPoint = <<One, One, Zero>>
  /\ ~IsZeroTol(Residual(input[3], analysis.solutionPoint))

\* C9: for the input of Test Case 2 the last entry is the identity augmented
\* with (1, 1, 1) within EPSILON and the analysis is consistent, unique,
\* (1, 1, 1).
C9_TestCase2 ==
  (phase = "analyzed" /\ input = TestCase2) =>
     /\ Len(LastOf(first)) = 3
     /\ \A r \in 1..3 : \A c \in 1..4 :
          IsZeroTol(RSub(LastOf(first)[r][c],
                         IF c = r \/ c = 4 THEN One ELSE Zero))
     /\ analysis.consistency = "consistent"
     /\ analysis.solutionType = "unique"
     /\ analysis.solutionPoint = <<One, One, One>>

\* C9 witness: the analysis of Test Case 2 has been made.
C9_Witness ==
  /\ phase = "analyzed"
  /\ input = TestCase2
  /\ Len(first) > 1

\* The coordinates of the points the solution sets are compared on.
TestCoords == {R(0), R(1), R(2), R(3)}
TestPoints(numVars) == [1..numVars -> TestCoords]

\* row[0]*pt[0] + ... + row[n-1]*pt[n-1]
RECURSIVE Dot(_, _, _)
Dot(row, pt, n) ==
  IF n = 0 THEN Zero ELSE RAdd(Dot(row, pt, n - 1), RMul(row[n], pt[n]))

\* The point satisfies every equation row of the matrix (within EPSILON).
Satisfies(mat, pt) ==
  \A r \in 1..Len(mat) :
    IsZeroTol(RSub(Dot(mat[r], pt, Len(pt)), mat[r][Len(pt) + 1]))

\* C5: at every index of the history the matrix has the solutions of the
\* input: a point satisfies all rows of the snapshot iff it satisfies all rows
\* of the input, and the unique solution point, when one is reported,
\* satisfies every row of every snapshot.
C5_SolutionSetKept ==
  (phase = "analyzed" /\ HasRows(input)) =>
     /\ \A pt \in TestPoints(ColsOf(input) - 1) :
          LET sat == Satisfies(input, pt)
          IN \A n \in 1..Len(first) : Satisfies(first[n], pt) <=> sat
     /\ (ColsOf(input) = 4 /\ analysis.solutionType = "unique") =>
          \A n \in 1..Len(first) : Satisfies(first[n], analysis.solutionPoint)

\* C5 witness: a reduction of several steps of a system with a whole line of
\* solutions, two of them among the points compared.
C5_Witness ==
  /\ phase = "analyzed"
  /\ ColsOf(input) = 4
  /\ Len(first) >= 5
  /\ analysis.solutionType = "infinite_line"
  /\ Cardinality({pt \in TestPoints(3) : Satisfies(input, pt)}) >= 2

\* C5, a reported unique point that satisfies no snapshot: on
\* [[1,0,0,1],[0,1,0,1],[0,0.0000005,0.001,1]] the point (1, 1, 0) fails the
\* third row of the input and of the last entry of the history.
C5_PointOffSnapshots ==
  /\ phase = "analyzed"
  /\ ColsOf(input) = 4
  /\ analysis.solutionType = "unique"
  /\ LastOf(first)[3] = <<Zero, Norm(1, 2000), One, R(1000)>>
  /\ \A n \in 1..Len(first) : ~Satisfies(first[n], analysis.solutionPoint)

\* The shapes a verdict can take.
VerdictShapes ==
  { <<"inconsistent", "none">>, <<"consistent", "unique">>,
    <<"consistent", "infinite_line">>, <<"consistent", "infinite_plane">> }

\* The number of free variables a consistent verdict conveys.
FreeVarsConveyed(a) ==
  CASE a.solutionType = "unique" -> 0
    [] a.solutionType = "infinite_line" -> 1
    [] a.solutionType = "infinite_plane" ->
         IF a.solutionString[1] = "Infinite Solutions (All R3)" THEN 3 ELSE 2
    [] OTHER -> -1

\* The rank analyzeRref counts for a matrix.
CountedRank(mat) == RankScan(mat, 0, ColsOf(mat), 0).rank

VerdictAgrees(mat, a) ==
  /\ <<a.consistency, a.solutionType>> \in VerdictShapes
  /\ a.consistency = "consistent" =>
       CountedRank(mat) + FreeVarsConveyed(a) = ColsOf(mat) - 1

HasImpossibleRow(mat) ==
  \E r \in 1..Len(mat) :
    /\ \A c \in 1..(ColsOf(mat) - 1) : IsZeroTol(mat[r][c])
    /\ ~IsZeroTol(mat[r][ColsOf(mat)])

C10_ImpossibleRowInconsistent ==
  (phase # "input" /\ ColsOf(input) >= 1 /\ HasImpossibleRow(input)) =>
     /\ direct.consistency = "inconsistent"
     /\ direct.solutionType = "none"
     /\ direct.solutionPoint = Null
     /\ direct.solutionString \in
          {<<"Inconsistent system (no solution).">>, <<"Invalid matrix shape.">>}

\* C10 witness: the row 0 0 0 | 5 stands between two rows that are not
\* reduced, and the matrix was analysed as given.
C10_Witness ==
  /\ phase = "ready"
  /\ Len(input) = 3
  /\ input[2] = IntRow(<<0, 0, 0, 5>>)
  /\ input[1] = IntRow(<<2, 1, -1, 2>>)
  /\ input[3] = IntRow(<<1, -1, 1, 1>>)

\* The minors of a matrix of three rows, computed from the entries.
Minor2(mat, r1, r2, c1, c2) ==
  RSub(RMul(mat[r1][c1], mat[r2][c2]), RMul(mat[r1][c2], mat[r2][c1]))
Minor3(mat, c1, c2, c3) ==
  RAdd(RSub(RMul(mat[1][c1], Minor2(mat, 2, 3, c2, c3)),
            RMul(mat[1][c2], Minor2(mat, 2, 3, c1, c3))),
       RMul(mat[1][c3], Minor2(mat, 2, 3, c1, c2)))

\* The rank of the columns cols of a matrix of three rows: the size of its
\* largest minor that is not zero.
TrueRank(mat, cols) ==
  IF \E c1, c2, c3 \in cols :
       c1 < c2 /\ c2 < c3 /\ Minor3(mat, c1, c2, c3) # Zero THEN 3
  ELSE IF \E r1, r2 \in 1..3 : \E c1, c2 \in cols :
            r1 < r2 /\ c1 < c2 /\ Minor2(mat, r1, r2, c1, c2) # Zero THEN 2
  ELSE IF \E r \in 1..3 : \E c \in cols : mat[r][c] # Zero THEN 1
  ELSE 0

\* The system [A|b] has a solution: rank(A) = rank([A|b]).
Solvable(mat) == TrueRank(mat, 1..3) = TrueRank(mat, 1..4)

\* C8: for an input of three rows and four columns the verdict on the last
\* entry of the history is the solution set of the input: inconsistent iff
\* there is no solution, unique iff there is exactly one, infinite_line iff
\* solvable with rank(A) = 2, infinite_plane iff solvable with rank(A) <= 1.
C8_VerdictIsSolutionSet ==
  (phase = "analyzed" /\ Len(input) = 3 /\ ColsOf(input) = 4) =>
     /\ (analysis.consistency = "inconsistent" /\ analysis.solutionType = "none"
           /\ analysis.solutionPoint = Null) <=> ~Solvable(input)
     /\ analysis.solutionType = "unique" <=>
          (Solvable(input) /\ TrueRank(input, 1..3) = 3)
     /\ analysis.solutionType = "infinite_line" <=>
          (Solvable(input) /\ TrueRank(input, 1..3) = 2)
     /\ analysis.solutionType = "infinite_plane" <=>
          (Solvable(input) /\ TrueRank(input, 1..3) <= 1)

\* C8 witness: an inconsistent system whose coefficient matrix has rank 2 was
\* reduced in several steps and analysed.
C8_Witness ==
  /\ phase = "analyzed"
  /\ Len(input) = 3
  /\ ColsOf(input) = 4
  /\ Len(first) >= 5
  /\ TrueRank(input, 1..3) = 2
  /\ ~Solvable(input)
  /\ analysis.consistency = "inconsistent"

\* C8 on editor values: for three equations with entries that are multiples
\* of 0.5 between -10 and 10 the verdict is the true solution set.
C8_VerdictIsSolutionSetOnEditorValues ==
  Coarse(input) => C8_VerdictIsSolutionSet

\* A verdict that is not the solution set: [[1,0,0,0],[0,1,0,0],
\* [0,0,0.0000005,0.0000005]] has the single solution (0, 0, 1) and is
\* reported as a line of solutions.
C8_LineForAPoint ==
  /\ phase = "analyzed"
  /\ input = <<<<One, Zero, Zero, Zero>>, <<Zero, One, Zero, Zero>>,
               <<Zero, Zero, HalfEpsilon, HalfEpsilon>>>>
  /\ Solvable(input)
  /\ TrueRank(input, 1..3) = 3
  /\ analysis.solutionType = "infinite_line"

\* A verdict that is not the solution set, by an entry left under a pivot:
\* [[1,0,0,0],[0.000001,0.001,0,0],[-0.000001,0.001,0,0]] has the line
\* x = 0, y = 0 of solutions, and is reported to have the single solution
\* (0, 0, 0) because the last entry of its history keeps -0.000002 in the
\* first column of the third row, which the rank scan counts as a pivot.
C8_PointForALine ==
  /\ phase = "analyzed"
  /\ input = <<<<One, Zero, Zero, Zero>>, <<EPSILON, Milli, Zero, Zero>>,
               <<RSub(Zero, EPSILON), Milli, Zero, Zero>>>>
  /\ Solvable(input)
  /\ TrueRank(input, 1..3) = 2
  /\ LastOf(first)[3][1] = Norm(-2, 1000000)
  /\ analysis.solutionType = "unique"
  /\ analysis.solutionPoint = <<Zero, Zero, Zero>>

\* The verdict on the input with a row of zeros inserted is the verdict on
\* the input: the same rank counted, consistency and solution type.
ZeroRowNeutral ==
  /\ zeroed.rank = zeroed.rankBefore
  /\ zeroed.result.consistency = direct.consistency
  /\ zeroed.result.solutionType = direct.solutionType

\* C11 as claimed: for every matrix and every position, inserting a row of
\* zeros leaves the rank counted, the consistency and the solution type
\* unchanged.
C11_ZeroRowNeutralAnyMatrix == phase = "padded" => ZeroRowNeutral

\* C11: for every matrix of at least one row and every position, inserting a
\* row of zeros of the matrix's width leaves the rank counted, the
\* consistency and the solution type unchanged.
C11_ZeroRowNeutral == (phase = "padded" /\ Len(input) >= 1) => ZeroRowNeutral

\* C11 witness: a row of zeros was inserted between the two equations of a
\* system of rank 2 with a line of solutions.
C11_Witness ==
  /\ phase = "padded"
  /\ Len(input) = 2
  /\ ColsOf(input) = 4
  /\ zeroed.pos = 1
  /\ zeroed.rank = 2
  /\ zeroed.result.solutionType = "infinite_line"

PointIffUnique(a) == a.solutionPoint # Null <=> a.solutionType = "unique"

\* C12: every result analyzeRref returns carries a solution point if and only
\* if its solution type is unique; inconsistent, infinite and degenerate-shape
\* results carry none.
C12_PointOnlyWhenUnique ==
  /\ phase # "input" => PointIffUnique(direct)
  /\ phase \in {"analyzed", "rerun"} => PointIffUnique(analysis)
  /\ phase = "padded" => PointIffUnique(zeroed.result)

\* C12 witness: the unreduced matrix was analysed as unique, with a point,
\* and its reduced form as a line of solutions, without one.
C12_Witness ==
  /\ phase = "analyzed"
  /\ direct.solutionType = "unique"
  /\ Len(direct.solutionPoint) = 3
  /\ analysis.solutionType = "infinite_line"
  /\ analysis.solutionPoint = Null

\* C13: on a matrix with no rows or no columns the engine is done on entry,
\* with a history of exactly one entry equal to the input and the working
\* matrix untouched; analyzeRref on a matrix with no rows or fewer than two
\* columns returns inconsistent / none without a solution point.
C13_DegenerateShapes ==
  /\ (EngineEntered /\ (Len(Argument) = 0 \/ ColsOf(Argument) = 0)) =>
        /\ es.pc = "done"
        /\ Len(es.history) = 1
        /\ Deref(es.heap, es.history[1]) = Argument
        /\ Deref(es.heap, es.matrix) = Argument
  /\ (phase # "input" /\ (Len(input) = 0 \/ ColsOf(input) < 2)) =>
        /\ direct.consistency = "inconsistent"
        /\ direct.solutionType = "none"
        /\ direct.solutionPoint = Null

\* C13 witness: the engine returned on two rows without columns, and the
\* result was analysed.
C13_Witness ==
  /\ phase = "analyzed"
  /\ input = <<<<>>, <<>>>>
  /\ first = <<input>>
  /\ analysis.solutionType = "none"

\* Every candidate entry of the pivot column is below EPSILON.
ColumnWithoutPivot ==
  \A k \in es.pivotRow..(numRowsOf(es) - 1) :
    RLess(RAbs(At(RowOf(es, k), es.pivotCol)), EPSILON)
InForwardLoop ==
  es.pc = "pivot" /\ es.pivotCol < numColsOf(es) - 1 /\ es.pivotRow < numRowsOf(es)

\* A bound on the number of steps the engine still has to take: the columns
\* left of the forward phase, n + 2 steps each, then the rows left of the
\* back-substitution, at most n + 1 steps each.
Variant(e) ==
  LET n == numRowsOf(e)
      c == numColsOf(e)
      forward == (c - e.pivotCol) * (n + 2) + (n + 1) * (n + 1) + 1
  IN CASE e.pc = "pivot" -> forward
       [] e.pc = "scale" -> forward - 1
       [] e.pc = "elim" -> forward - 2 - e.i
       [] e.pc = "back" -> (e.i + 1) * (n + 1) + 1
       [] e.pc = "backelim" -> (e.i + 1) * (n + 1) - (e.i - 1 - e.k) - 1
       [] OTHER -> 0

\* C14: every run of the engine ends, with a history: each step lowers a
\* bound on the steps left that is never negative and is 0 only when the
\* engine is done. The pivot a row is about to be divided by is never below
\* EPSILON in absolute value. A column whose candidates are all below EPSILON
\* is passed over with the pivot row and the history left as they are.
C14_Total ==
  /\ [](EngineEntered =>
          /\ Len(es.history) >= 1
          /\ Variant(es) >= 0
          /\ (Variant(es) = 0 <=> es.pc = "done"))
  /\ [][Step => Variant(es') < Variant(es)]_vars
  /\ [][(Step /\ es.pc = "scale") =>
          ~RLess(RAbs(At(RowOf(es, es.pivotRow), es.pivotCol)), EPSILON)]_vars
  /\ [][(Step /\ InForwardLoop /\ ColumnWithoutPivot) =>
          /\ es'.pivotRow = es.pivotRow
          /\ es'.pivotCol = es.pivotCol + 1
          /\ es'.history = es.history
          /\ es'.pc = "pivot"]_vars

\* C14 witness: a run has ended on a matrix whose first column is zero, after
\* a pivot was found in a later column and row operations were recorded.
C14_Witness ==
  /\ phase = "running"
  /\ es.pc = "done"
  /\ Len(input) >= 2
  /\ ColsOf(input) >= 3
  /\ \A r \in 1..Len(input) : input[r][1] = Zero
  /\ es.pivotRow >= 1
  /\ Len(es.history) >= 3

(***************************************************************************)
(* Properties of the store                                                 *)
(***************************************************************************)
IndexInRange ==
  /\ 0 <= rrefStepIndex
  /\ rrefStepIndex <= Len(rrefHistory) - 1

\* Stepping back at index 0, or forward at the last index, leaves the index.
StepsClamp ==
  [][/\ (stepRrefHistory("back") /\ rrefState = "viewing" /\ rrefStepIndex = 0)
          => rrefStepIndex' = 0
     /\ (stepRrefHistory("forward") /\ rrefState = "viewing"
           /\ rrefStepIndex = Len(rrefHistory) - 1)
          => rrefStepIndex' = rrefStepIndex
     /\ (\E direction \in {"back", "forward", "other"} : stepRrefHistory(direction))
          => /\ rrefStepIndex' - rrefStepIndex \in {-1, 0, 1}
             /\ (IndexInRange => IndexInRange')]_vars

\* C15 as claimed: after any sequence of store operations, whenever the
\* state is viewing the index is between 0 and the history's length minus 1,
\* and stepping at either end leaves it.
C15_IndexInRangeWheneverViewing ==
  /\ [](rrefState = "viewing" => IndexInRange)
  /\ StepsClamp

\* C15: after any sequence of store operations, whenever the mode is rref
\* and the state is viewing, the index is between 0 and the history's length
\* minus 1; stepping back at index 0 or forward at the last index leaves the
\* index where it is, and a step never moves it by more than one nor out of
\* range.
C15_IndexInRangeInRrefMode ==
  /\ [](mode = "rref" /\ rrefState = "viewing" => IndexInRange)
  /\ StepsClamp

\* C15 witness: in rref mode the viewer stands on the last entry of a
\* history of at least three entries, where a forward step is clamped.
C15_Witness ==
  /\ mode = "rref"
  /\ rrefState = "viewing"
  /\ Len(rrefHistory) >= 3
  /\ rrefStepIndex = Len(rrefHistory) - 1

FirstEntryIsMatrix ==
  /\ Len(rrefHistory) >= 1
  /\ rrefHistory[1] = initialRrefMatrix

\* While the state stays viewing, and across the calculation itself, the
\* editable matrix keeps its value.
MatrixFrozen ==
  [][/\ (rrefState = "viewing" /\ rrefState' = "viewing")
          => initialRrefMatrix' = initialRrefMatrix
     /\ PanelCalculate => initialRrefMatrix' = initialRrefMatrix]_vars

\* C16 as claimed: while the state is viewing the editable matrix does not
\* change, and in every viewing state the first entry of the history equals
\* it.
C16_FrozenWheneverViewing ==
  /\ [](rrefState = "viewing" => FirstEntryIsMatrix)
  /\ MatrixFrozen

\* C16: driven through the panels, the editable matrix does not change while
\* the state is viewing, and in every viewing state of rref mode the first
\* entry of the history equals it.
C16_FrozenInRrefMode ==
  /\ [](mode = "rref" /\ rrefState = "viewing" => FirstEntryIsMatrix)
  /\ MatrixFrozen

\* C16 witness: a matrix that was edited in the panel has been reduced and
\* the viewer has stepped into a history of at least three entries.
C16_Witness ==
  /\ mode = "rref"
  /\ rrefState = "viewing"
  /\ edits >= 1
  /\ Len(rrefHistory) >= 3
  /\ rrefStepIndex >= 1
  /\ rrefHistory[1] = initialRrefMatrix
  /\ rrefHistory[Len(rrefHistory)] # initialRrefMatrix

AnalysisOfLast ==
  /\ Len(rrefHistory) >= 1
  /\ rrefAnalysis = analyzeRref(rrefHistory[Len(rrefHistory)])

NothingComputed ==
  /\ rrefHistory = <<>>
  /\ rrefStepIndex = -1
  /\ rrefAnalysis = NoAnalysis

\* C17 as claimed: in every viewing state the history is non-empty and the
\* analysis is that of its last entry; in every editing state the history is
\* empty, the index -1 and the analysis null; history and analysis are never
\* discarded without the state going to editing.
C17_ViewingHasHistory ==
  /\ [](rrefState = "viewing" => AnalysisOfLast)
  /\ [](rrefState = "editing" => NothingComputed)
  /\ [][(rrefHistory # <<>> /\ rrefHistory' = <<>>) => rrefState' = "editing"]_vars

\* C17: in every viewing state of rref mode, and whenever the history is
\* non-empty, the analysis is that of the last entry of the history; in
\* every editing state the history is empty, the index -1 and the analysis
\* null; the history is discarded only when the state goes to editing or
\* setMode is called.
C17_ViewingHasHistoryInRrefMode ==
  /\ [](mode = "rref" /\ rrefState = "viewing" => AnalysisOfLast)
  /\ [](rrefHistory # <<>> => rrefState = "viewing" /\ AnalysisOfLast)
  /\ [](rrefState = "editing" => NothingComputed /\ rrefUniqueSolutionPoint = Null)
  /\ [][(rrefHistory # <<>> /\ rrefHistory' = <<>>)
          => (rrefState' = "editing" \/ SetMode)]_vars

\* C17 witness: rref mode shows the history of a system classified as a
\* line of solutions.
C17_Witness ==
  /\ mode = "rref"
  /\ rrefState = "viewing"
  /\ Len(rrefHistory) >= 3
  /\ rrefAnalysis.solutionType = "infinite_line"
  /\ rrefAnalysis = analyzeRref(rrefHistory[Len(rrefHistory)])

\* C18: from any state, resetRrefToEditing ends in the editing state with an
\* empty history, index -1, no analysis and no solution point, and leaves
\* the editable matrix, the mode, the objects and the selection as they
\* were.
C18_ResetToEditing ==
  [][resetRrefToEditing =>
       /\ rrefState' = "editing"
       /\ rrefHistory' = <<>>
       /\ rrefStepIndex' = -1
       /\ rrefAnalysis' = NoAnalysis
       /\ rrefUniqueSolutionPoint' = Null
       /\ initialRrefMatrix' = initialRrefMatrix
       /\ mode' = mode
       /\ objects' = objects
       /\ selectedObjectId' = selectedObjectId]_vars

\* C18 witness: a state in which the reset has everything to clear and
\* everything to keep: a history under view with a unique solution point, an
\* edited matrix, and a selected object.
C18_Witness ==
  /\ rrefState = "viewing"
  /\ Len(rrefHistory) >= 2
  /\ rrefStepIndex >= 1
  /\ rrefUniqueSolutionPoint # Null
  /\ initialRrefMatrix # sampleMatrix
  /\ Len(objects) >= 1
  /\ selectedObjectId # Null

(***************************************************************************)
(* Properties of the scene in rref mode                                    *)
(***************************************************************************)
\* A row a b c | d whose coefficients are all zero.
ZeroNormalRow(row) == row[1] = Zero /\ row[2] = Zero /\ row[3] = Zero

\* The rows (1-based) of the displayed matrix that a sequence of plane
\* records stands for, and the record of a row.
RowsOf(planes) == {planes[n].index + 1 : n \in 1..Len(planes)}
PlaneOfRow(planes, r) ==
  CHOOSE pd \in {planes[n] : n \in 1..Len(planes)} : pd.index + 1 = r
RowsDrawn == RowsOf(drawnPlanes)
RowsActive == RowsOf(activePlanes)

C20_NoPointUnlessUnique ==
  (mode = "rref" /\ rrefState = "viewing" /\ rrefAnalysis.solutionType # "unique")
    => intersectionPoints = {}

\* C20 witness: the last step of README Test Case 3, a line of solutions,
\* where the row of zeros enters the triple loop as the plane z = 0 and the
\* three planes x + z = 2, y = 1, z = 0 meet in (2, 1, 0).
C20_Witness ==
  /\ mode = "rref"
  /\ rrefState = "viewing"
  /\ initialRrefMatrix = TestCase3
  /\ rrefStepIndex = Len(rrefHistory) - 1
  /\ rrefAnalysis.solutionType = "infinite_line"
  /\ \E r \in triplePoints : r.data = <<R(2), One, Zero>>

(***************************************************************************)
(* Properties of the helpers of the scene                                  *)
(***************************************************************************)
\* a*a + b*b + c*c < SQ_EPSILON, and |d| < EPSILON
SmallNormal(row) == LessScaled(lengthSq(<<row[1], row[2], row[3]>>), One, 12)
SmallConstant(row) == LessScaled(RAbs(row[4]), One, 6)

\* C21: for a row a b c | d of four entries, when a*a + b*b + c*c is below
\* SQ_EPSILON the row is valid exactly when |d| is below EPSILON; otherwise
\* the row is valid and the position is (a,b,c) * d / (a*a + b*b + c*c), a
\* point of the plane a*x + b*y + c*z = d.
C21_RowTransform ==
  helper \in {"planes", "found"} =>
    \A n \in 1..3 :
      Len(rows[n]) = 4 =>
        \E row \in {rows[n]}, t \in {transforms[n]} :
          /\ t # Null
          /\ IF SmallNormal(row)
               THEN t.isValid <=> SmallConstant(row)
               ELSE /\ t.isValid
                    /\ t.position =
                         VScale(<<row[1], row[2], row[3]>>,
                                RDiv(row[4], lengthSq(<<row[1], row[2], row[3]>>)))
                    /\ RAdd(RAdd(RMul(row[1], t.position[1]),
                                 RMul(row[2], t.position[2])),
                            RMul(row[3], t.position[3])) = row[4]

\* C21 witness: the transforms were taken of a row without normal whose
\* constant is below EPSILON and not zero, of one whose constant is EPSILON,
\* and of a row whose normal is not of length 1.
C21_Witness ==
  /\ helper = "planes"
  /\ rows[1] = <<Zero, Zero, Zero, Norm(1, 2000000)>>
  /\ transforms[1].isValid
  /\ rows[2] = <<Zero, Zero, Zero, EPSILON>>
  /\ ~transforms[2].isValid
  /\ rows[3] = IntRow(<<2, 2, 2, 4>>)
  /\ transforms[3].position = <<Norm(2, 3), Norm(2, 3), Norm(2, 3)>>

\* The point lies on the plane of a transform.
OnPlane(t, pt) == VDot(t.dir, pt) = VDot(t.dir, t.position)
Parallel(t1, t2) == VCross(t1.dir, t2.dir) = <<Zero, Zero, Zero>>

\* |N1 . (N2 x N3)| < EPSILON for the unit normals of three transforms.
UnitDetSmall(t1, t2, t3) ==
  LET det == VDot(t1.dir, VCross(t2.dir, t3.dir))
  IN LessScaled(RMul(det, det),
                RMul(RMul(lengthSq(t1.dir), lengthSq(t2.dir)), lengthSq(t3.dir)),
                12)

\* C22: intersectThreePlanes returns nothing exactly when the determinant of
\* the three unit normals is below EPSILON in absolute value, as it is when
\* the normals are dependent; three planes with pairwise parallel normals
\* give nothing, and intersectPlanePlane gives nothing for each parallel
\* pair; otherwise the result is a point that lies on all three planes.
C22_ThreePlanes ==
  helper = "found" =>
    \E t1 \in {transforms[1]}, t2 \in {transforms[2]}, t3 \in {transforms[3]} :
      /\ (found.point = Null) <=> UnitDetSmall(t1, t2, t3)
      /\ (found.point = Null) <=> (VDot(t1.dir, VCross(t2.dir, t3.dir)) = Zero)
      /\ found.point # Null =>
           OnPlane(t1, found.point) /\ OnPlane(t2, found.point)
             /\ OnPlane(t3, found.point)
      /\ \A ij \in PlanePairs3 :
           Parallel(transforms[ij[1]], transforms[ij[2]]) <=> (found.lines[ij] = Null)
      /\ (Parallel(t1, t2) /\ Parallel(t2, t3)) =>
           /\ found.point = Null
           /\ \A ij \in PlanePairs3 : found.lines[ij] = Null

\* C22 witness: the helpers were applied to three parallel planes of which
\* no two coincide.
C22_Witness ==
  /\ helper = "found"
  /\ rows = <<IntRow(<<1, 1, 1, 3>>), IntRow(<<2, 2, 2, 4>>), IntRow(<<-1, -1, -1, 1>>)>>
  /\ found.point = Null
  /\ \A ij \in PlanePairs3 : found.lines[ij] = Null

\* The helpers found the point of three independent planes.
C22_PointFound ==
  /\ helper = "found"
  /\ rows = <<IntRow(<<1, 1, 1, 3>>), IntRow(<<1, -1, 1, 1>>), IntRow(<<0, 0, 1, 3>>)>>
  /\ found.point = <<R(-1), One, R(3)>>

(***************************************************************************)
(* Properties of the steps of calculateRrefSteps                           *)
(***************************************************************************)
\* |matrix[i][c]| in an engine state
AbsAt(e, i, c) == RAbs(At(RowOf(e, i), c))

\* The rows pivotRow..last whose entry in the pivot column is largest in
\* absolute value, and the first of them.
LargestRows(e) ==
  {i \in e.pivotRow..(numRowsOf(e) - 1) :
     \A q \in e.pivotRow..(numRowsOf(e) - 1) :
       ~RLess(AbsAt(e, i, e.pivotCol), AbsAt(e, q, e.pivotCol))}
FirstLargest(e) == CHOOSE i \in LargestRows(e) : \A q \in LargestRows(e) : i <= q

\* The head of the forward loop has run with the loop test met, and it has
\* selected a pivot.
PivotSearched == Step /\ es.pc = "pivot" /\ es'.pc # "back"
PivotSelected == PivotSearched /\ es'.pc = "scale"

\* C23: whenever a pivot is selected for column c with pivot row p, the
\* selected row is the first of the rows p..last whose entry in column c is
\* largest in absolute value; it stands in row p afterwards, a snapshot of
\* the exchange is recorded if and only if it was not row p, and a column is
\* passed over only when that largest entry is below EPSILON.
C23_PartialPivoting ==
  [][/\ PivotSearched =>
          (es'.pc = "scale" <=>
             ~RLess(AbsAt(es, FirstLargest(es), es.pivotCol), EPSILON))
     /\ PivotSelected =>
          \E sel \in {FirstLargest(es)} :
            /\ RowOf(es', es.pivotRow) = RowOf(es, sel)
            /\ RowOf(es', sel) = RowOf(es, es.pivotRow)
            /\ \A i \in 0..(numRowsOf(es) - 1) :
                 (i # sel /\ i # es.pivotRow) => RowOf(es', i) = RowOf(es, i)
            /\ Len(es'.history) = Len(es.history) + (IF sel # es.pivotRow THEN 1 ELSE 0)
            /\ sel # es.pivotRow =>
                 Deref(es'.heap, es'.history[Len(es'.history)])
                   = Deref(es'.heap, es'.matrix)]_vars

\* C23 witness: the first pivot of three equations was taken from the second
\* row, whose entry ties with the third row's and exceeds the first row's.
C23_Witness ==
  /\ phase = "running"
  /\ es.pc = "scale"
  /\ es.pivotRow = 0
  /\ es.pivotCol = 0
  /\ Len(input) = 3
  /\ RLess(RAbs(input[1][1]), RAbs(input[2][1]))
  /\ RAbs(input[2][1]) = RAbs(input[3][1])
  /\ input[2] # input[3]
  /\ RowOf(es, 0) = input[2]
  /\ RowOf(es, 1) = input[1]
  /\ Len(es.history) = 2

\* Two matrices of the same shape differ at most in the rows of a set
\* (1-based).
SameBut(old, new, changed) ==
  /\ Len(new) = Len(old)
  /\ \A r \in 1..Len(old) : r \notin changed => new[r] = old[r]

\* new is old with rows a and b exchanged.
IsSwapOf(old, new, a, b) ==
  /\ a # b
  /\ SameBut(old, new, {a, b})
  /\ new[a] = old[b]
  /\ new[b] = old[a]

\* new is old with row r divided by its entry in column c (1-based).
IsScalingOf(old, new, r, c) ==
  /\ old[r][c] # Zero
  /\ SameBut(old, new, {r})
  /\ new[r] = [j \in 1..Len(old[r]) |-> RDiv(old[r][j], old[r][c])]

\* new is old with row i less old[i][c] times row p.
IsEliminationOf(old, new, i, p, c) ==
  /\ i # p
  /\ SameBut(old, new, {i})
  /\ new[i] = [j \in 1..Len(old[i]) |-> RSub(old[i][j], RMul(old[i][c], old[p][j]))]

\* new comes from old by one elementary row operation.
OneRowOperation(old, new) ==
  \/ \E a, b \in 1..Len(old) : IsSwapOf(old, new, a, b)
  \/ \E r \in 1..Len(old) : \E c \in 1..Len(old[r]) : IsScalingOf(old, new, r, c)
  \/ \E i, p \in 1..Len(old) : \E c \in 1..Len(old[i]) :
       IsEliminationOf(old, new, i, p, c)

Pushed == Step /\ Len(es'.history) = Len(es.history) + 1
LastSnapshot(e) == Deref(e.heap, e.history[Len(e.history)])

\* C24: each entry of the history comes from the entry before it by one
\* elementary row operation: the exchange of the pivot row with a later row,
\* the division of the pivot row by the pivot value, or the subtraction of a
\* multiple of the pivot row from another row; a step records at most one
\* entry, and within a pivot column the exchange comes first, then the
\* division, then the eliminations in increasing row index.
C24_OneRowOperationPerEntry ==
  /\ [](phase = "analyzed" =>
          \A n \in 1..(Len(first) - 1) : OneRowOperation(first[n], first[n + 1]))
  /\ [][Step => Len(es'.history) \in {Len(es.history), Len(es.history) + 1}]_vars
  /\ [][Pushed =>
          \E old \in {LastSnapshot(es)}, new \in {LastSnapshot(es')} :
            CASE es.pc = "pivot" ->
                   \E b \in (es.pivotRow + 2)..Len(old) :
                     IsSwapOf(old, new, es.pivotRow + 1, b)
              [] es.pc = "scale" ->
                   IsScalingOf(old, new, es.pivotRow + 1, es.pivotCol + 1)
              [] es.pc = "elim" ->
                   IsEliminationOf(old, new, es.i + 1, es.pivotRow + 1, es.pivotCol + 1)
              [] es.pc = "backelim" ->
                   IsEliminationOf(old, new, es.k + 1, es.i + 1, es.backCol + 1)
              [] OTHER -> FALSE]_vars
  /\ [][(Step /\ es.pc \in {"pivot", "scale", "elim"} /\ es'.pc # "back") =>
          CASE es.pc = "pivot" ->
                 \/ es'.pc = "pivot" /\ es'.pivotCol = es.pivotCol + 1
                      /\ es'.pivotRow = es.pivotRow
                 \/ es'.pc = "scale" /\ es'.pivotCol = es.pivotCol
                      /\ es'.pivotRow = es.pivotRow
            [] es.pc = "scale" ->
                 es'.pc = "elim" /\ es'.i = 0 /\ es'.pivotCol = es.pivotCol
                   /\ es'.pivotRow = es.pivotRow
            [] es.pc = "elim" ->
                 \/ es'.pc = "elim" /\ es'.i = es.i + 1 /\ es'.pivotCol = es.pivotCol
                      /\ es'.pivotRow = es.pivotRow
                 \/ es'.pc = "pivot" /\ es.i = numRowsOf(es) - 1
                      /\ es'.pivotCol = es.pivotCol + 1
                      /\ es'.pivotRow = es.pivotRow + 1]_vars

\* C24 witness: a history in which a column was handled by an exchange, a
\* division and two eliminations, in that order.
C24_Witness ==
  /\ phase = "analyzed"
  /\ Len(input) = 3
  /\ Len(first) >= 5
  /\ \E b \in 2..3 : IsSwapOf(first[1], first[2], 1, b)
  /\ IsScalingOf(first[2], first[3], 1, 1)
  /\ IsEliminationOf(first[3], first[4], 2, 1, 1)
  /\ IsEliminationOf(first[4], first[5], 3, 1, 1)

\* new is old with row r divided by its entry in column c (1-based) and its
\* entries below EPSILON then set to 0.
IsSnappedScalingOf(old, new, r, c) ==
  /\ old[r][c] # Zero
  /\ SameBut(old, new, {r})
  /\ new[r] = SnapRow([j \in 1..Len(old[r]) |-> RDiv(old[r][j], old[r][c])])

\* new is old with row i less old[i][c] times row p and its entries below
\* EPSILON then set to 0.
IsSnappedEliminationOf(old, new, i, p, c) ==
  /\ i # p
  /\ SameBut(old, new, {i})
  /\ new[i] = SnapRow([j \in 1..Len(old[i]) |->
                         RSub(old[i][j], RMul(old[i][c], old[p][j]))])

OneSnappedRowOperation(old, new) ==
  \/ \E a, b \in 1..Len(old) : IsSwapOf(old, new, a, b)
  \/ \E r \in 1..Len(old) : \E c \in 1..Len(old[r]) :
       IsSnappedScalingOf(old, new, r, c)
  \/ \E i, p \in 1..Len(old) : \E c \in 1..Len(old[i]) :
       IsSnappedEliminationOf(old, new, i, p, c)

\* C24 with the snap: each entry of the history comes from the entry before
\* it by the exchange of the pivot row with a later row, or by the division
\* of the pivot row by the pivot value or the subtraction of a multiple of
\* the pivot row from another row, followed by the replacement by 0 of the
\* entries of that row below EPSILON; a step records at most one entry, and
\* within a pivot column the exchange comes first, then the division, then
\* the eliminations in increasing row index.
C24_OneSnappedRowOperationPerEntry ==
  /\ [](phase = "analyzed" =>
          \A n \in 1..(Len(first) - 1) : OneSnappedRowOperation(first[n], first[n + 1]))
  /\ [][Step => Len(es'.history) \in {Len(es.history), Len(es.history) + 1}]_vars
  /\ [][Pushed =>
          \E old \in {LastSnapshot(es)}, new \in {LastSnapshot(es')} :
            CASE es.pc = "pivot" ->
                   \E b \in (es.pivotRow + 2)..Len(old) :
                     IsSwapOf(old, new, es.pivotRow + 1, b)
              [] es.pc = "scale" ->
                   IsSnappedScalingOf(old, new, es.pivotRow + 1, es.pivotCol + 1)
              [] es.pc = "elim" ->
                   IsSnappedEliminationOf(old, new, es.i + 1, es.pivotRow + 1, es.pivotCol + 1)
              [] es.pc = "backelim" ->
                   IsSnappedEliminationOf(old, new, es.k + 1, es.i + 1, es.backCol + 1)
              [] OTHER -> FALSE]_vars
  /\ [][(Step /\ es.pc \in {"pivot", "scale", "elim"} /\ es'.pc # "back") =>
          CASE es.pc = "pivot" ->
                 \/ es'.pc = "pivot" /\ es'.pivotCol = es.pivotCol + 1
                      /\ es'.pivotRow = es.pivotRow
                 \/ es'.pc = "scale" /\ es'.pivotCol = es.pivotCol
                      /\ es'.pivotRow = es.pivotRow
            [] es.pc = "scale" ->
                 es'.pc = "elim" /\ es'.i = 0 /\ es'.pivotCol = es.pivotCol
                   /\ es'.pivotRow = es.pivotRow
            [] es.pc = "elim" ->
                 \/ es'.pc = "elim" /\ es'.i = es.i + 1 /\ es'.pivotCol = es.pivotCol
                      /\ es'.pivotRow = es.pivotRow
                 \/ es'.pc = "pivot" /\ es.i = numRowsOf(es) - 1
                      /\ es'.pivotCol = es.pivotCol + 1
                      /\ es'.pivotRow = es.pivotRow + 1]_vars

\* A division that is not an elementary row operation: on
\* [[2,0,0,0.000001],[0,1,0,1],[0,0,1,1]] the first row is divided by 2 and
\* its constant 0.0000005 is replaced by 0.
C24_SnappedConstant ==
  /\ phase = "analyzed"
  /\ Len(first) = 2
  /\ first[1][1] = <<R(2), Zero, Zero, EPSILON>>
  /\ first[2][1] = <<One, Zero, Zero, Zero>>
  /\ ~OneRowOperation(first[1], first[2])

(***************************************************************************)
(* Properties of the store's operations                                    *)
(***************************************************************************)
\* C25: stepRrefHistory changes nothing but rrefStepIndex: the history, the
\* analysis, the solution point, the state and the editable matrix stay as
\* they are, as do the mode, the objects and the selection; the index moves
\* by at most one position, and in the editing state nothing changes.
C25_StepMovesIndexOnly ==
  [][(\E direction \in {"back", "forward"} : stepRrefHistory(direction)) =>
       /\ rrefHistory' = rrefHistory
       /\ rrefAnalysis' = rrefAnalysis
       /\ rrefUniqueSolutionPoint' = rrefUniqueSolutionPoint
       /\ rrefState' = rrefState
       /\ initialRrefMatrix' = initialRrefMatrix
       /\ mode' = mode
       /\ objects' = objects
       /\ selectedObjectId' = selectedObjectId
       /\ rrefStepIndex' - rrefStepIndex \in {-1, 0, 1}
       /\ rrefState = "editing" => rrefStepIndex' = rrefStepIndex]_vars

\* C25 witness: the viewer stands inside a history of at least three entries
\* of a system with a solution point, where a step in either direction moves
\* the index.
C25_Witness ==
  /\ rrefState = "viewing"
  /\ Len(rrefHistory) >= 3
  /\ rrefStepIndex >= 1
  /\ rrefStepIndex < Len(rrefHistory) - 1
  /\ rrefUniqueSolutionPoint # Null
  /\ rrefAnalysis.solutionType = "unique"

\* The cell (row, col), 0-based, is a cell of the matrix.
CellInRange(M, row, col) ==
  /\ 0 <= row /\ row < Len(M)
  /\ 0 <= col /\ col < ColsOf(M)

\* C26: updateInitialRrefCell(row, col, value) with (row, col) in range
\* leaves a matrix equal to the previous one except that the cell holds
\* value, and leaves the history, the index and the analysis unchanged; with
\* row or col out of range it leaves the whole store unchanged.
C26_CellEdit ==
  [][\A row \in EditRows, col \in EditCols, value \in EditVals :
       updateInitialRrefCell(row, col, value) =>
         /\ rrefHistory' = rrefHistory
         /\ rrefStepIndex' = rrefStepIndex
         /\ rrefAnalysis' = rrefAnalysis
         /\ rrefUniqueSolutionPoint' = rrefUniqueSolutionPoint
         /\ rrefState' = rrefState
         /\ mode' = mode
         /\ objects' = objects
         /\ selectedObjectId' = selectedObjectId
         /\ IF CellInRange(initialRrefMatrix, row, col)
              THEN /\ Len(initialRrefMatrix') = Len(initialRrefMatrix)
                   /\ \A r \in 1..Len(initialRrefMatrix) :
                        /\ Len(initialRrefMatrix'[r]) = Len(initialRrefMatrix[r])
                        /\ \A c \in 1..Len(initialRrefMatrix[r]) :
                             initialRrefMatrix'[r][c] =
                               IF r = row + 1 /\ c = col + 1 THEN value
                               ELSE initialRrefMatrix[r][c]
              ELSE initialRrefMatrix' = initialRrefMatrix]_vars

\* C26 witness: a cell was written while a history was under view; the
\* history and the index are as they were and the matrix differs from the
\* first entry of the history in that cell alone.
C26_Witness ==
  /\ rrefState = "viewing"
  /\ edits = 1
  /\ Len(rrefHistory) >= 2
  /\ rrefStepIndex >= 1
  /\ rrefHistory[1] # initialRrefMatrix
  /\ \E value \in EditVals :
       initialRrefMatrix = [rrefHistory[1] EXCEPT ![1][1] = value]

\* C30: in every state of the store rrefUniqueSolutionPoint is the
\* solutionPoint of rrefAnalysis, and null when there is no analysis; hence
\* it is non-null only while the analysis is classified unique.
C30_PointIsAnalysisPoint ==
  /\ rrefUniqueSolutionPoint = rrefAnalysis.solutionPoint
  /\ (rrefAnalysis = NoAnalysis => rrefUniqueSolutionPoint = Null)
  /\ (rrefUniqueSolutionPoint # Null => rrefAnalysis.solutionType = "unique")

\* C30 witness: a unique system under view after a step forward, its point
\* held by the store and by the analysis alike.
C30_Witness ==
  /\ rrefState = "viewing"
  /\ rrefStepIndex >= 1
  /\ rrefAnalysis.solutionType = "unique"
  /\ rrefUniqueSolutionPoint # Null
  /\ rrefUniqueSolutionPoint = rrefAnalysis.solutionPoint

\* A snapshot appended by the back-substitution phase.
PushedInBack == Pushed /\ es.pc = "backelim"

\* C27 as stated: for every input the back-substitution phase appends no
\* snapshot; the whole history is produced by the forward phase.
C27_BackNeverAppends == [][~PushedInBack]_vars

\* C27: on an input of editor values (multiples of 0.5 between -10 and 10)
\* the back-substitution phase appends no snapshot, in the run on the input
\* and in the run on its outcome.
C27_BackNeverAppendsOnEditorValues == [][PushedInBack => ~Coarse(input)]_vars

\* C27 witness: on an input of editor values the back-substitution phase has
\* found the pivot of the last of three rows and has come to the topmost row
\* above it, after a forward phase that recorded row operations.
C27_Witness ==
  /\ phase = "running"
  /\ Coarse(input)
  /\ es.pc = "backelim"
  /\ es.i = 2
  /\ es.k = 0
  /\ Len(es.history) >= 4

\* A run in which back-substitution has appended a snapshot: the history is
\* longer than it was when the forward phase ended, on a matrix with an
\* entry equal to EPSILON under a pivot of 0.001.
C27_BackAppended ==
  /\ phase = "running"
  /\ es.pc = "done"
  /\ input = <<<<One, Zero, One, Zero>>, <<Zero, One, Zero, Zero>>,
               <<Zero, EPSILON, Milli, Zero>>>>
  /\ Len(es.history) = 4

\* The number of pivots the forward phase can find in r rows and c columns,
\* as the claim counts them, and the bound on the history that follows.
PivotsAsStated(r, c) == Min(r, c - 1)
HistoryBound(pivots, r) == 1 + pivots * (r + 1)

\* Every entry of the history has the rows and the columns of M.
SameShape(history, M) ==
  \A n \in 1..Len(history) :
    /\ Len(history[n]) = Len(M)
    /\ \A r \in 1..Len(M) : Len(history[n][r]) = Len(M[r])

ZeroOnVariables(row, n) == \A c \in 0..(n - 1) : IsZeroTol(At(row, c))

\* The rows of mat with a leading pivot are its first k rows, their pivot
\* columns increase from top to bottom, and the rows after them are zero on
\* the variable columns 0..n-1.
Staircase(mat, n, k) ==
  /\ \A r \in 1..k : LeadingPivotCol(mat[r], 0, n) # -1
  /\ \A r \in 1..(k - 1) :
       LeadingPivotCol(mat[r], 0, n) < LeadingPivotCol(mat[r + 1], 0, n)
  /\ \A r \in (k + 1)..Len(mat) : ZeroOnVariables(mat[r], n)

\* C29: in the last entry of the history the pivot rows are the first k
\* rows, with pivot columns increasing from top to bottom, and every later
\* row is zero on the variable columns; the rank the analyzer counts is k, at
\* most numVars, so that its first rank rows are the pivot rows.
C29_PivotRowsFirst ==
  (phase = "analyzed" /\ Len(input) >= 1 /\ ColsOf(input) >= 2) =>
     /\ \E k \in 0..Len(input) :
          /\ Staircase(LastOf(first), ColsOf(input) - 1, k)
          /\ rankOf(LastOf(first)) = k
     /\ rankOf(LastOf(first)) <= ColsOf(input) - 1

\* C29 witness: the run on [[1, 0, 0], [0.000001, 0.001, 0]] has ended with
\* [[1, 0, 0], [0.001, 1, 0]]: the second row has no leading pivot and is
\* not zero on the variable columns.
C29_Witness ==
  /\ phase = "analyzed"
  /\ input = <<<<One, Zero, Zero>>, <<EPSILON, Milli, Zero>>>>
  /\ LastOf(first) = <<<<One, Zero, Zero>>, <<Milli, One, Zero>>>>
  /\ LeadingPivotCol(LastOf(first)[2], 0, 2) = -1
  /\ ~ZeroOnVariables(LastOf(first)[2], 2)

\* The run on [[1, 0, 0], [0.000001, 0.001, 0], [-0.000001, 0.001, 0]] has
\* ended with three rows that are not zero on the two variable columns: the
\* analyzer counts a rank of 3.
C29_RankAboveVariables ==
  /\ phase = "analyzed"
  /\ ColsOf(input) = 3
  /\ rankOf(LastOf(first)) = 3

\* On inputs of editor values the last entry is such a staircase.
C29_PivotRowsFirstOnEditorValues == Coarse(input) => C29_PivotRowsFirst

====
